---- MODULE Spec2Model ----
(***************************************************************************)
(* A model of the harmony codec: the byte-pair tokenizer (tiktoken.cpp),   *)
(* the vocabulary built by the registry (registry.cpp), the renderer, the  *)
(* bulk completion parser and the StreamableParser (encoding.cpp).         *)
(*                                                                         *)
(* Text is a sequence of bytes (0..255); a std::optional<T> is the empty   *)
(* sequence (nullopt) or a one-element sequence holding the value.         *)
(***************************************************************************)
EXTENDS Integers, Sequences, FiniteSets, TLC

(***************************************************************************)
(* Byte strings spelled in the source.                                     *)
(***************************************************************************)
\* "<|start|>"
Tok_start == <<60, 124, 115, 116, 97, 114, 116, 124, 62>>
\* "<|end|>"
Tok_end == <<60, 124, 101, 110, 100, 124, 62>>
\* "<|message|>"
Tok_message == <<60, 124, 109, 101, 115, 115, 97, 103, 101, 124, 62>>
\* "<|channel|>"
Tok_channel == <<60, 124, 99, 104, 97, 110, 110, 101, 108, 124, 62>>
\* "<|constrain|>"
Tok_constrain == <<60, 124, 99, 111, 110, 115, 116, 114, 97, 105, 110, 124, 62>>
\* "<|call|>"
Tok_call == <<60, 124, 99, 97, 108, 108, 124, 62>>
\* "<|reasoning|>"
Tok_reasoning == <<60, 124, 114, 101, 97, 115, 111, 110, 105, 110, 103, 124, 62>>
\* "<|thinking|>"
Tok_thinking == <<60, 124, 116, 104, 105, 110, 107, 105, 110, 103, 124, 62>>
\* "<|analysis|>"
Tok_analysis == <<60, 124, 97, 110, 97, 108, 121, 115, 105, 115, 124, 62>>
\* "<|commentary|>"
Tok_commentary == <<60, 124, 99, 111, 109, 109, 101, 110, 116, 97, 114, 121, 124, 62>>
\* "<|final|>"
Tok_final == <<60, 124, 102, 105, 110, 97, 108, 124, 62>>
\* "<|system|>"
Tok_system == <<60, 124, 115, 121, 115, 116, 101, 109, 124, 62>>
\* "<|user|>"
Tok_user == <<60, 124, 117, 115, 101, 114, 124, 62>>
\* "<|assistant|>"
Tok_assistant == <<60, 124, 97, 115, 115, 105, 115, 116, 97, 110, 116, 124, 62>>
\* "<|developer|>"
Tok_developer == <<60, 124, 100, 101, 118, 101, 108, 111, 112, 101, 114, 124, 62>>
\* "<|tool|>"
Tok_tool == <<60, 124, 116, 111, 111, 108, 124, 62>>
\* "system"
Str_system == <<115, 121, 115, 116, 101, 109>>
\* "user"
Str_user == <<117, 115, 101, 114>>
\* "assistant"
Str_assistant == <<97, 115, 115, 105, 115, 116, 97, 110, 116>>
\* "developer"
Str_developer == <<100, 101, 118, 101, 108, 111, 112, 101, 114>>
\* "tool"
Str_tool == <<116, 111, 111, 108>>
\* " to="
Str_to_marker == <<32, 116, 111, 61>>
\* "to="
Str_to_eq == <<116, 111, 61>>
\* "Model: "
Str_Model == <<77, 111, 100, 101, 108, 58, 32>>
\* "Reasoning effort: "
Str_Reasoning_effort == <<82, 101, 97, 115, 111, 110, 105, 110, 103, 32, 101, 102, 102, 111, 114, 116, 58, 32>>
\* "Knowledge cutoff: "
Str_Knowledge_cutoff == <<75, 110, 111, 119, 108, 101, 100, 103, 101, 32, 99, 117, 116, 111, 102, 102, 58, 32>>
\* "Current date: "
Str_Current_date == <<67, 117, 114, 114, 101, 110, 116, 32, 100, 97, 116, 101, 58, 32>>
\* "\nRequired channels: "
Str_Required_channels == <<10, 82, 101, 113, 117, 105, 114, 101, 100, 32, 99, 104, 97, 110, 110, 101, 108, 115, 58, 32>>
\* ", "
Str_comma == <<44, 32>>
\* "\n"
Str_nl == <<10>>
\* "low"
Str_low == <<108, 111, 119>>
\* "medium"
Str_medium == <<109, 101, 100, 105, 117, 109>>
\* "high"
Str_high == <<104, 105, 103, 104>>

(***************************************************************************)
(* registry.cpp: the vocabulary.                                           *)
(***************************************************************************)
\* The multi-byte entries of create_basic_encoder ("th" -> 256, ...).
common_pairs ==
  (<<116, 104>> :> 256) @@ (<<104, 101>> :> 257) @@ (<<105, 110>> :> 258) @@
  (<<101, 114>> :> 259) @@ (<<97, 110>> :> 260) @@ (<<114, 101>> :> 261) @@
  (<<101, 100>> :> 262) @@ (<<110, 100>> :> 263) @@ (<<111, 110>> :> 264) @@
  (<<101, 110>> :> 265) @@ (<<97, 116>> :> 266) @@ (<<111, 117>> :> 267) @@
  (<<105, 116>> :> 268) @@ (<<105, 115>> :> 269) @@ (<<111, 114>> :> 270) @@
  (<<116, 105>> :> 271) @@ (<<97, 115>> :> 272) @@ (<<116, 101>> :> 273) @@
  (<<101, 116>> :> 274) @@ (<<110, 103>> :> 275) @@ (<<111, 102>> :> 276) @@
  (<<97, 108>> :> 277) @@ (<<100, 101>> :> 278) @@ (<<115, 101>> :> 279) @@
  (<<108, 101>> :> 280) @@ (<<116, 111>> :> 281) @@ (<<97, 114>> :> 282) @@
  (<<115, 116>> :> 283) @@ (<<110, 116>> :> 284) @@ (<<114, 111>> :> 285) @@
  (<<110, 101>> :> 286) @@ (<<111, 109>> :> 287) @@ (<<108, 105>> :> 288) @@
  (<<108, 97>> :> 289) @@ (<<101, 108>> :> 290) @@ (<<109, 97>> :> 291) @@
  (<<114, 105>> :> 292) @@ (<<105, 99>> :> 293) @@ (<<99, 111>> :> 294) @@
  (<<99, 97>> :> 295) @@ (<<116, 105, 111, 110>> :> 296) @@ (<<105, 110, 103>> :> 297) @@
  (<<97, 110, 100>> :> 298) @@ (<<116, 104, 101>> :> 299) @@ (<<102, 111, 114>> :> 300) @@
  (<<97, 114, 101>> :> 301) @@ (<<119, 105, 116, 104>> :> 302) @@ (<<104, 105, 115>> :> 303) @@
  (<<116, 104, 101, 121>> :> 304) @@ (<<104, 97, 118, 101>> :> 305) @@ (<<116, 104, 105, 115>> :> 306) @@
  (<<119, 105, 108, 108>> :> 307) @@ (<<121, 111, 117>> :> 308) @@ (<<116, 104, 97, 116>> :> 309) @@
  (<<98, 117, 116>> :> 310) @@ (<<110, 111, 116>> :> 311) @@ (<<119, 104, 97, 116>> :> 312) @@
  (<<97, 108, 108>> :> 313) @@ (<<119, 101, 114, 101>> :> 314) @@ (<<99, 97, 110>> :> 315) @@
  (<<104, 97, 100>> :> 316) @@ (<<104, 101, 114>> :> 317) @@ (<<119, 97, 115>> :> 318) @@
  (<<111, 110, 101>> :> 319) @@ (<<111, 117, 114>> :> 320)

\* encoder[{i}] = i for every byte i, then the common pairs.
create_basic_encoder ==
  common_pairs @@ [k \in {<<i>> : i \in 0..255} |-> k[1]]

\* The sixteen special literals numbered from 256 on, directly after the
\* single bytes, where the registry numbers its byte pairs.
special_tokens_from_256 ==
  (Tok_start :> 256) @@ (Tok_end :> 257) @@ (Tok_message :> 258) @@
  (Tok_channel :> 259) @@ (Tok_constrain :> 260) @@ (Tok_call :> 261) @@
  (Tok_reasoning :> 262) @@ (Tok_thinking :> 263) @@ (Tok_analysis :> 264) @@
  (Tok_commentary :> 265) @@ (Tok_final :> 266) @@ (Tok_system :> 267) @@
  (Tok_user :> 268) @@ (Tok_assistant :> 269) @@ (Tok_developer :> 270) @@
  (Tok_tool :> 271)

create_harmony_special_tokens ==
  (Tok_start :> 200000) @@ (Tok_end :> 200001) @@ (Tok_message :> 200002) @@
  (Tok_channel :> 200003) @@ (Tok_constrain :> 200004) @@ (Tok_call :> 200005) @@
  (Tok_reasoning :> 200006) @@ (Tok_thinking :> 200007) @@ (Tok_analysis :> 200008) @@
  (Tok_commentary :> 200009) @@ (Tok_final :> 200010) @@ (Tok_system :> 200011) @@
  (Tok_user :> 200012) @@ (Tok_assistant :> 200013) @@ (Tok_developer :> 200014) @@
  (Tok_tool :> 200015)

(***************************************************************************)
(* Outcomes of a call: a value, or the exception the call throws.          *)
(***************************************************************************)
Returns(v) == [threw |-> "none", value |-> v]
Throws(e) == [threw |-> e, value |-> <<>>]

\* The greatest and the least element of a finite set of numbers.
Max(S) == CHOOSE x \in S : \A y \in S : y <= x
Min(S) == CHOOSE x \in S : \A y \in S : x <= y

RECURSIVE Concat(_)
\* The concatenation of a sequence of sequences (vector::insert at end()),
\* computed by halves.
Concat(ss) ==
  IF ss = <<>> THEN <<>>
  ELSE IF Len(ss) = 1 THEN ss[1]
  ELSE Concat(SubSeq(ss, 1, Len(ss) \div 2))
       \o Concat(SubSeq(ss, Len(ss) \div 2 + 1, Len(ss)))

(***************************************************************************)
(* State of the program.                                                   *)
(***************************************************************************)
VARIABLES
  sort_tie,               \* which of two equal-rank merges std::sort puts first
  conversation,           \* the Conversation the caller holds
  tokenized_by,           \* how the caller obtained the token list
  tokens,                 \* the token list obtained from the conversation
  parsed,                 \* result of parse_messages_from_completion_tokens
  state_,                 \* StreamableParser::state_
  tokens_,                \* StreamableParser::tokens_
  messages_,              \* StreamableParser::messages_
  current_content_,       \* StreamableParser::current_content_
  current_role_,          \* StreamableParser::current_role_
  current_channel_,       \* StreamableParser::current_channel_
  current_recipient_,     \* StreamableParser::current_recipient_
  current_content_type_,  \* StreamableParser::current_content_type_
  last_content_delta_,    \* StreamableParser::last_content_delta_
  last_call,              \* the parser call made last and how it ended
  eos_calls,              \* number of process_eos calls made so far
  input_text,             \* the byte string handed to the tokenizer
  ranks_gap,              \* the bytes the vocabulary in use has no entry for
  allowed_,               \* the allowed_special argument of encode
  tokenizer_call,         \* the tokenizer call made and how it ended
  encoded,                \* what that call returned
  decoded,                \* decode_bytes of the returned ranks
  completion_call,        \* arguments of render_conversation_for_completion
  results,                \* what the callers of encode_ordinary got, by call
  conversation_json,      \* the JSON made of the conversation
  restored                \* the Conversation read back from that JSON

parser_vars == <<state_, tokens_, messages_, current_content_, current_role_,
                 current_channel_, current_recipient_, current_content_type_,
                 last_content_delta_, last_call, eos_calls>>
caller_vars == <<sort_tie, conversation, tokenized_by, tokens, parsed>>
tokenizer_vars == <<input_text, ranks_gap, allowed_, tokenizer_call, encoded,
                    decoded>>
other_vars == <<results, conversation_json, restored>>
direct_vars == <<tokenizer_vars, completion_call, other_vars>>
vars == <<caller_vars, parser_vars, direct_vars>>

(***************************************************************************)
(* tiktoken.cpp: CoreBPE as constructed by load_harmony_encoding.          *)
(***************************************************************************)
encoder_ == create_basic_encoder
special_tokens_encoder_ == create_harmony_special_tokens

\* CoreBPE::CoreBPE, "Build decoder from encoder".
decoder_ ==
  [r \in {encoder_[k] : k \in DOMAIN encoder_} |->
     CHOOSE k \in DOMAIN encoder_ : encoder_[k] = r]

\* CoreBPE::CoreBPE, "Build special tokens decoder".
special_tokens_decoder_ ==
  [r \in {special_tokens_encoder_[k] : k \in DOMAIN special_tokens_encoder_} |->
     CHOOSE k \in DOMAIN special_tokens_encoder_ : special_tokens_encoder_[k] = r]

\* The class \s of std::regex for char in the "C" locale.
IsSpace(b) == b \in {9, 10, 11, 12, 13, 32}

\* The main pattern uses \p{..} and possessive quantifiers, which std::regex
\* rejects, so the constructor's catch block installs the fallback \S+|\s+ :
\* a match is a maximal run of space or of non-space bytes starting at i, and
\* RunEnd is the index of its last byte.
RunEnd(text, i) ==
  Min({e \in i..Len(text) :
         e = Len(text) \/ IsSpace(text[e + 1]) # IsSpace(text[i])})

\* What a single regex_search would yield instead of the iterator: the
\* first match only.
first_piece_only(text, i) ==
  IF i > Len(text) THEN <<>> ELSE <<SubSeq(text, i, RunEnd(text, i))>>

RECURSIVE regex_pieces(_, _)
\* The matches that sregex_iterator yields over text from index i on.
regex_pieces(text, i) ==
  LET piece_to(e) == <<SubSeq(text, i, e)>> \o regex_pieces(text, e + 1)
  IN IF i > Len(text) THEN <<>> ELSE piece_to(RunEnd(text, i))

\* byte_pair_merge: the (position, rank) of every adjacent byte pair that is
\* in ranks, by position (positions count from 1 here).
byte_pair_merge(ranks, piece) ==
  LET windows == [i \in 1..(Len(piece) - 1) |-> <<i, SubSeq(piece, i, i + 1)>>]
      found == SelectSeq(windows, LAMBDA w : w[2] \in DOMAIN ranks)
  IN [k \in 1..Len(found) |-> <<found[k][1], ranks[found[k][2]]>>]

\* A sort whose choice among equal ranks changes from one call to the next.
sorted_front_by_call(merges) ==
  LET least == {k \in 1..Len(merges) :
                  \A j \in 1..Len(merges) : merges[k][2] <= merges[j][2]}
  IN IF Len(results) % 2 = 0 THEN merges[Min(least)] ELSE merges[Max(least)]

\* merges[0] after std::sort by rank: an element of least rank; std::sort is
\* not stable, so among equal ranks the build decides which comes first.
sorted_front(merges) ==
  LET least == {k \in 1..Len(merges) :
                  \A j \in 1..Len(merges) : merges[k][2] <= merges[j][2]}
      first == CHOOSE k \in least : \A j \in least : k <= j
      last == CHOOSE k \in least : \A j \in least : k >= j
  IN IF sort_tie = "leftmost" THEN merges[first] ELSE merges[last]

\* The ranks of the single bytes of piece that are in ranks.
single_byte_ranks(piece, ranks) ==
  Concat([i \in 1..Len(piece) |->
            IF <<piece[i]>> \in DOMAIN ranks THEN <<ranks[<<piece[i]>>]>> ELSE <<>>])

RECURSIVE byte_pair_encode(_, _)
byte_pair_encode(piece, ranks) ==
  LET \* "Convert parts to ranks"
      ranks_of(new_parts) ==
        Concat([k \in 1..Len(new_parts) |->
                  IF new_parts[k] \in DOMAIN ranks
                  THEN <<ranks[new_parts[k]]>>
                  ELSE byte_pair_encode(new_parts[k], ranks)])
      \* "Apply the first merge"
      merged(parts, merge_pos) ==
        IF merge_pos + 1 <= Len(parts)
        THEN [i \in 1..(Len(parts) - 1) |->
                IF i < merge_pos THEN parts[i]
                ELSE IF i = merge_pos THEN parts[i] \o parts[i + 1]
                ELSE parts[i + 1]]
        ELSE parts
      with_merges(merges) ==
        IF merges = <<>>
        THEN single_byte_ranks(piece, ranks)
        ELSE ranks_of(merged([i \in 1..Len(piece) |-> <<piece[i]>>],
                             sorted_front(merges)[1]))
  IN IF Len(piece) = 1
     THEN IF piece \in DOMAIN ranks THEN <<ranks[piece]>> ELSE <<>>
     ELSE with_merges(byte_pair_merge(ranks, piece))

\* CoreBPE::encode_ordinary
encode_ordinary(text) ==
  LET encode_pieces(pieces) ==
        Concat([k \in 1..Len(pieces) |-> byte_pair_encode(pieces[k], encoder_)])
  IN encode_pieces(regex_pieces(text, 1))

\* Every special token at pos of remaining_text, whatever allowed_special
\* holds.
special_at_any(remaining_text, pos, allowed_special) ==
  {special_token \in DOMAIN special_tokens_encoder_ :
     /\ pos + Len(special_token) - 1 <= Len(remaining_text)
     /\ SubSeq(remaining_text, pos, pos + Len(special_token) - 1) = special_token}

\* The special tokens encode() recognises at pos of remaining_text (substr
\* yields a shorter string at the end of the text, which equals no literal).
special_at(remaining_text, pos, allowed_special) ==
  {special_token \in DOMAIN special_tokens_encoder_ :
     /\ special_token \in allowed_special \/ allowed_special = {}
     /\ pos + Len(special_token) - 1 <= Len(remaining_text)
     /\ SubSeq(remaining_text, pos, pos + Len(special_token) - 1) = special_token}

RECURSIVE encode_loop(_, _, _, _, _)
\* The while loop of CoreBPE::encode and the code after it. The loop advances
\* pos one byte at a time until a special token is found at pos: hits are the
\* positions from pos on where it finds one.
encode_loop(remaining_text, pos, allowed_special, result, last_piece_token_len) ==
  LET \* "Found a special token at current position"
      found(at, special_token) ==
        encode_loop(
          SubSeq(remaining_text, at + Len(special_token), Len(remaining_text)),
          1, allowed_special,
          result \o (IF at > 1
                     THEN encode_ordinary(SubSeq(remaining_text, 1, at - 1))
                     ELSE <<>>)
                 \o <<special_tokens_encoder_[special_token]>>,
          1)
      found_at(at) ==
        found(at, CHOOSE s \in special_at(remaining_text, at, allowed_special) : TRUE)
      \* "Encode any remaining text"
      remaining(remaining_tokens) ==
        [tokens |-> result \o remaining_tokens,
         last_piece_token_len |-> Len(remaining_tokens)]
      scan(hits) ==
        IF hits # {} THEN found_at(Min(hits))
        ELSE IF remaining_text # <<>>
        THEN remaining(encode_ordinary(remaining_text))
        ELSE [tokens |-> result, last_piece_token_len |-> last_piece_token_len]
  IN scan({p \in pos..Len(remaining_text) :
             special_at(remaining_text, p, allowed_special) # {}})

\* CoreBPE::encode
encode(text, allowed_special) ==
  LET all_ordinary(ordinary) ==
        [tokens |-> ordinary, last_piece_token_len |-> Len(ordinary)]
  IN IF DOMAIN special_tokens_encoder_ = {}
     THEN all_ordinary(encode_ordinary(text))
     ELSE encode_loop(text, 1, allowed_special, <<>>, 0)

\* CoreBPE::encode_with_special_tokens
encode_with_special_tokens(text) ==
  encode(text, DOMAIN special_tokens_encoder_).tokens

\* A decoder that steps over the tokens it does not know.
decode_known_bytes(toks) ==
  Returns(Concat([i \in 1..Len(toks) |->
                    IF toks[i] \in DOMAIN decoder_ THEN decoder_[toks[i]]
                    ELSE IF toks[i] \in DOMAIN special_tokens_decoder_
                    THEN special_tokens_decoder_[toks[i]]
                    ELSE <<>>]))

\* CoreBPE::decode_bytes: the loop throws at the first token that is in
\* neither decoder.
decode_bytes(toks) ==
  IF \E i \in 1..Len(toks) :
       toks[i] \notin DOMAIN decoder_ \cup DOMAIN special_tokens_decoder_
  THEN Throws("DecodeKeyError")
  ELSE Returns(Concat([i \in 1..Len(toks) |->
                         IF toks[i] \in DOMAIN decoder_
                         THEN decoder_[toks[i]]
                         ELSE special_tokens_decoder_[toks[i]]]))

\* (c & 0xC0) == 0x80
IsContinuation(c) == c \div 64 = 2

\* The number of bytes the validation loop of decode_utf8 takes for a unit
\* whose first byte is c; 0 where the loop returns false on c.
utf8_unit_len(c) ==
  IF c < 128 THEN 1
  ELSE IF c \div 32 = 6 THEN 2
  ELSE IF c \div 16 = 14 THEN 3
  ELSE IF c \div 8 = 30 THEN 4
  ELSE 0

\* The validation loop of CoreBPE::decode_utf8 from index i on (from 1 here).
\* The loop stands on the first byte of a unit, requires the unit's
\* continuation bytes and steps over them; it returns false when it stands
\* on a continuation byte or on a byte that starts no unit. So it accepts
\* when index i holds no continuation byte and every other byte starts a
\* unit that is complete and followed by no further continuation byte.
valid_utf8(result, i) ==
  /\ i <= Len(result) => ~IsContinuation(result[i])
  /\ \A j \in i..Len(result) :
       IsContinuation(result[j]) \/
         LET n == utf8_unit_len(result[j])
         IN /\ n >= 1
            /\ j + n - 1 <= Len(result)
            /\ \A m \in (j + 1)..(j + n - 1) : IsContinuation(result[m])
            /\ j + n <= Len(result) => ~IsContinuation(result[j + n])

\* CoreBPE::decode_utf8
decode_utf8(toks) ==
  LET validated(bytes) ==
        IF bytes.threw # "none" THEN bytes
        ELSE IF valid_utf8(bytes.value, 1) THEN bytes
        ELSE Throws("DecodeError")
  IN validated(decode_bytes(toks))

(***************************************************************************)
(* chat.hpp / chat.cpp: the data model.                                    *)
(***************************************************************************)
Role == {"User", "Assistant", "System", "Developer", "Tool"}

\* role_to_string
role_to_string(role) ==
  CASE role = "User" -> Str_user
    [] role = "Assistant" -> Str_assistant
    [] role = "System" -> Str_system
    [] role = "Developer" -> Str_developer
    [] role = "Tool" -> Str_tool

\* reasoning_effort_to_string
reasoning_effort_to_string(effort) ==
  CASE effort = "Low" -> Str_low
    [] effort = "Medium" -> Str_medium
    [] effort = "High" -> Str_high

\* struct Author
Author(role) == [role |-> role, name |-> <<>>]

\* struct TextContent
TextContent(text) == [type |-> "text", text |-> text]

\* struct SystemContent with every optional field unset
EmptySystemContent ==
  [type |-> "system_content", model_identity |-> <<>>, reasoning_effort |-> <<>>,
   tools |-> <<>>, conversation_start_date |-> <<>>, knowledge_cutoff |-> <<>>,
   channel_config |-> <<>>]

\* struct DeveloperContent with every optional field unset
EmptyDeveloperContent ==
  [type |-> "developer_content", instructions |-> <<>>, tools |-> <<>>]

\* ChannelConfig::require_channels
require_channels(channels) ==
  [valid_channels |-> channels, channel_required |-> TRUE]

\* Message::Message(Author, std::vector<Content>)
Message(author, content) ==
  [author |-> author, recipient |-> <<>>, content |-> content,
   channel |-> <<>>, content_type |-> <<>>]

(***************************************************************************)
(* encoding.cpp: the renderer.                                             *)
(***************************************************************************)
\* HarmonyEncoding::role_to_special_token
role_to_special_token(role) ==
  CASE role = "System" -> Tok_system
    [] role = "User" -> Tok_user
    [] role = "Assistant" -> Tok_assistant
    [] role = "Developer" -> Tok_developer
    [] role = "Tool" -> Tok_tool

\* What a lookup through encode_ordinary would yield instead: the rank of
\* the literal's first byte.
encode_as_text(token) == Returns(encode_ordinary(token)[1])

\* HarmonyEncoding::get_special_token
get_special_token(token) ==
  LET first_of(toks) ==
        IF toks # <<>> THEN Returns(toks[1]) ELSE Throws("runtime_error")
  IN IF token \in DOMAIN special_tokens_encoder_
     THEN first_of(encode_with_special_tokens(token))
     ELSE Throws("runtime_error")

RECURSIVE join_channels(_, _)
\* The loop that writes valid_channels separated by ", " (from index i on).
join_channels(valid_channels, i) ==
  IF i > Len(valid_channels) THEN <<>>
  ELSE (IF i > 1 THEN Str_comma ELSE <<>>) \o valid_channels[i]
       \o join_channels(valid_channels, i + 1)

\* The text render_message builds in ss for a SystemContent (contents that
\* carry tool namespaces are outside the inputs modelled here).
system_content_text(system_content) ==
  (IF system_content.model_identity # <<>>
   THEN Str_Model \o system_content.model_identity[1] \o Str_nl ELSE <<>>)
  \o (IF system_content.reasoning_effort # <<>>
      THEN Str_Reasoning_effort
           \o reasoning_effort_to_string(system_content.reasoning_effort[1])
           \o Str_nl
      ELSE <<>>)
  \o (IF system_content.knowledge_cutoff # <<>>
      THEN Str_Knowledge_cutoff \o system_content.knowledge_cutoff[1] \o Str_nl
      ELSE <<>>)
  \o (IF system_content.conversation_start_date # <<>>
      THEN Str_Current_date \o system_content.conversation_start_date[1] \o Str_nl
      ELSE <<>>)
  \o (IF system_content.channel_config # <<>>
         /\ system_content.channel_config[1].channel_required
         /\ system_content.channel_config[1].valid_channels # <<>>
      THEN Str_Required_channels
           \o join_channels(system_content.channel_config[1].valid_channels, 1)
           \o Str_nl
      ELSE <<>>)

\* The text render_message builds in ss for a DeveloperContent (without tools).
developer_content_text(dev_content) ==
  IF dev_content.instructions # <<>>
  THEN dev_content.instructions[1] \o Str_nl ELSE <<>>

\* The tokens render_message appends for one element of message.content.
render_content(content) ==
  CASE content.type = "text" -> encode_ordinary(content.text)
    [] content.type = "system_content" ->
         encode_ordinary(system_content_text(content))
    [] content.type = "developer_content" ->
         encode_ordinary(developer_content_text(content))

\* HarmonyEncoding::render_message (config is not read by the code)
render_message(message, config) ==
  LET needed == {Tok_start, role_to_special_token(message.author.role),
                 Tok_message, Tok_end}
                \cup (IF message.channel # <<>> THEN {Tok_channel} ELSE {})
                \cup (IF message.content_type # <<>> THEN {Tok_constrain} ELSE {})
  IN IF \E t \in needed : get_special_token(t).threw # "none"
     THEN Throws("runtime_error")
     ELSE Returns(
       <<get_special_token(Tok_start).value,
         get_special_token(role_to_special_token(message.author.role)).value>>
       \o (IF message.channel # <<>>
           THEN <<get_special_token(Tok_channel).value>>
                \o encode_ordinary(message.channel[1])
           ELSE <<>>)
       \o (IF message.recipient # <<>>
           THEN encode_ordinary(Str_to_marker \o message.recipient[1])
           ELSE <<>>)
       \o (IF message.content_type # <<>>
           THEN <<get_special_token(Tok_constrain).value>>
                \o encode_ordinary(message.content_type[1])
           ELSE <<>>)
       \o <<get_special_token(Tok_message).value>>
       \o Concat([k \in 1..Len(message.content) |->
                    render_content(message.content[k])])
       \o <<get_special_token(Tok_end).value>>)

\* HarmonyEncoding::render_conversation
render_conversation(conv, config) ==
  LET all_of(rendered) ==
        IF \E k \in 1..Len(conv) : rendered[k].threw # "none"
        THEN Throws("runtime_error")
        ELSE Returns(Concat([k \in 1..Len(conv) |-> rendered[k].value]))
  IN all_of([k \in 1..Len(conv) |-> render_message(conv[k], config)])

\* The rendered conversation without the start of the next turn.
render_without_turn(conv, next_turn_role, config) ==
  render_conversation(conv, config)

\* HarmonyEncoding::render_conversation_for_completion
render_conversation_for_completion(conv, next_turn_role, config) ==
  LET with_turn(body, start, role) ==
        IF body.threw # "none" \/ start.threw # "none" \/ role.threw # "none"
        THEN Throws("runtime_error")
        ELSE Returns(body.value \o <<start.value, role.value>>)
  IN with_turn(render_conversation(conv, config),
               get_special_token(Tok_start),
               get_special_token(role_to_special_token(next_turn_role)))

(***************************************************************************)
(* encoding.cpp: the bulk parser, a search with message_regex              *)
(*   <\|start\|>([^<]+)(?:<\|channel\|>([^<]+))?(?:\s+to=([^<\|]+))?       *)
(*   (?:<\|constrain\|>([^<]+))?<\|message\|>(.*?)<\|end\|>                *)
(* A match attempt is the empty sequence (no match) or a one-element       *)
(* sequence holding the captures and the index after the match.  Greedy    *)
(* parts try the longest candidate first, the lazy body the shortest.      *)
(***************************************************************************)
\* Does text hold the literal lit at index p?
literal_at(text, p, lit) ==
  /\ p + Len(lit) - 1 <= Len(text)
  /\ SubSeq(text, p, p + Len(lit) - 1) = lit

\* The character classes of message_regex.
in_class(cls, b) ==
  CASE cls = "[^<]" -> b # 60
    [] cls = "[^<\\|]" -> b \notin {60, 124}
    [] cls = "\\s" -> IsSpace(b)
    [] cls = "." -> b \notin {10, 13}

\* The index after the longest run of bytes of class cls that starts at p.
class_run_end(text, p, cls) ==
  Min({q \in p..(Len(text) + 1) :
         q = Len(text) + 1 \/ ~in_class(cls, text[q])})

\* An optional group that captures a run of a class and is greedy: of the
\* ends at which the rest of the pattern matches, the regex takes the
\* greatest, and skips the group when there is none; rest_start is where the
\* rest of the pattern then starts.
group_taken(ends) == ends # {}
rest_start(p, ends) == IF ends # {} THEN Max(ends) ELSE p

\* <\|message\|>(.*?)<\|end\|> at p
match_body(text, p) ==
  LET from == p + Len(Tok_message)
      body_to(q) ==
        <<[body |-> SubSeq(text, from, q - 1), end |-> q + Len(Tok_end)]>>
      lazy(ends) == IF ends = {} THEN <<>> ELSE body_to(Min(ends))
  IN IF ~literal_at(text, p, Tok_message) THEN <<>>
     ELSE lazy({q \in from..class_run_end(text, from, ".") :
                  literal_at(text, q, Tok_end)})

\* (?:<\|constrain\|>([^<]+))? and what follows it, at p
match_constrain(text, p) ==
  LET from == p + Len(Tok_constrain)
      captured(content_type, rest) ==
        IF rest = <<>> THEN <<>>
        ELSE <<[content_type |-> content_type, body |-> rest[1].body,
                end |-> rest[1].end]>>
      group(ends) ==
        captured(IF group_taken(ends)
                 THEN <<SubSeq(text, from, Max(ends) - 1)>> ELSE <<>>,
                 match_body(text, rest_start(p, ends)))
  IN group(IF literal_at(text, p, Tok_constrain)
           THEN {e \in (from + 1)..class_run_end(text, from, "[^<]") :
                   match_body(text, e) # <<>>}
           ELSE {})

\* (?:\s+to=([^<\|]+))? and what follows it, at p: w is the index after the
\* white space, e the index after the recipient; both parts are greedy.
match_to(text, p) ==
  LET captured(recipient, rest) ==
        IF rest = <<>> THEN <<>>
        ELSE <<[recipient |-> recipient, content_type |-> rest[1].content_type,
                body |-> rest[1].body, end |-> rest[1].end]>>
      taken(w, ends) ==
        captured(<<SubSeq(text, w + Len(Str_to_eq), Max(ends) - 1)>>,
                 match_constrain(text, Max(ends)))
      longest_space(takes, w) == taken(w, {we[2] : we \in {x \in takes : x[1] = w}})
      group(takes) ==
        IF takes # {}
        THEN longest_space(takes, Max({we[1] : we \in takes}))
        ELSE captured(<<>>, match_constrain(text, p))
  IN group({we \in ((p + 1)..class_run_end(text, p, "\\s")) \X (1..(Len(text) + 1)) :
              /\ literal_at(text, we[1], Str_to_eq)
              /\ we[2] >= we[1] + Len(Str_to_eq) + 1
              /\ we[2] <= class_run_end(text, we[1] + Len(Str_to_eq), "[^<\\|]")
              /\ match_constrain(text, we[2]) # <<>>})

\* (?:<\|channel\|>([^<]+))? and what follows it, at p
match_channel(text, p) ==
  LET from == p + Len(Tok_channel)
      captured(channel, rest) ==
        IF rest = <<>> THEN <<>>
        ELSE <<[channel |-> channel, recipient |-> rest[1].recipient,
                content_type |-> rest[1].content_type,
                body |-> rest[1].body, end |-> rest[1].end]>>
      group(ends) ==
        captured(IF group_taken(ends)
                 THEN <<SubSeq(text, from, Max(ends) - 1)>> ELSE <<>>,
                 match_to(text, rest_start(p, ends)))
  IN group(IF literal_at(text, p, Tok_channel)
           THEN {e \in (from + 1)..class_run_end(text, from, "[^<]") :
                   match_to(text, e) # <<>>}
           ELSE {})

\* message_regex at s
match_at(text, s) ==
  LET from == s + Len(Tok_start)
      captured(role_str, rest) ==
        <<[role_str |-> role_str, channel |-> rest.channel,
           recipient |-> rest.recipient, content_type |-> rest.content_type,
           body |-> rest.body, end |-> rest.end]>>
      role_to(e) == captured(SubSeq(text, from, e - 1), match_channel(text, e)[1])
      greedy(ends) == IF ends = {} THEN <<>> ELSE role_to(Max(ends))
  IN greedy(IF literal_at(text, s, Tok_start)
            THEN {e \in (from + 1)..class_run_end(text, from, "[^<]") :
                    match_channel(text, e) # <<>>}
            ELSE {})

\* "Parse role" in parse_harmony_format
parse_role(role_str) ==
  IF role_str = Str_system THEN "System"
  ELSE IF role_str = Str_user THEN "User"
  ELSE IF role_str = Str_assistant THEN "Assistant"
  ELSE IF role_str = Str_developer THEN "Developer"
  ELSE IF role_str = Str_tool THEN "Tool"
  ELSE "User"

\* The Message parse_harmony_format builds from one match.
message_of_match(match) ==
  [Message(Author(parse_role(match.role_str)), <<TextContent(match.body)>>)
     EXCEPT !.channel = match.channel,
            !.recipient = match.recipient,
            !.content_type = match.content_type]

RECURSIVE regex_search_from(_, _)
\* The messages of the matches sregex_iterator finds in text from index s on.
regex_search_from(text, s) ==
  LET next_message(match) ==
        <<message_of_match(match)>> \o regex_search_from(text, match.end)
      first_match(starts) ==
        IF starts = {} THEN <<>>
        ELSE next_message(match_at(text, Min(starts))[1])
  IN first_match({p \in s..Len(text) : match_at(text, p) # <<>>})

\* HarmonyEncoding::parse_harmony_format
parse_harmony_format(text) == regex_search_from(text, 1)

\* HarmonyEncoding::parse_messages_from_completion_tokens (role is not read)
parse_messages_from_completion_tokens(toks, role) ==
  LET parse_text(text) ==
        IF text.threw # "none" THEN text
        ELSE Returns(parse_harmony_format(text.value))
  IN parse_text(decode_utf8(toks))

(***************************************************************************)
(* encoding.cpp: StreamableParser.                                         *)
(***************************************************************************)
\* A parser that takes every role token for <|user|>.
parse_role_as_user(token) ==
  IF token \in {Tok_system, Tok_user, Tok_assistant, Tok_developer, Tok_tool}
  THEN <<"User">> ELSE <<>>

\* StreamableParser::parse_role_from_token
parse_role_from_token(token) ==
  IF token = Tok_system THEN <<"System">>
  ELSE IF token = Tok_user THEN <<"User">>
  ELSE IF token = Tok_assistant THEN <<"Assistant">>
  ELSE IF token = Tok_developer THEN <<"Developer">>
  ELSE IF token = Tok_tool THEN <<"Tool">>
  ELSE <<>>

\* StreamableParser::finalize_current_message
finalize_current_message ==
  IF current_role_ # <<>>
  THEN /\ messages_' =
            Append(messages_,
                   [Message(Author(current_role_[1]),
                            <<TextContent(current_content_)>>)
                      EXCEPT !.channel = current_channel_,
                             !.recipient = current_recipient_,
                             !.content_type = current_content_type_])
       /\ current_content_' = <<>>
       /\ current_role_' = <<>>
       /\ current_channel_' = <<>>
       /\ current_recipient_' = <<>>
       /\ current_content_type_' = <<>>
  ELSE UNCHANGED <<messages_, current_content_, current_role_, current_channel_,
                   current_recipient_, current_content_type_>>

\* StreamableParser::process
process(token) ==
  LET token_text == decode_utf8(<<token>>)
  IN /\ tokens_' = Append(tokens_, token)
     /\ last_call' = [op |-> "process", threw |-> token_text.threw]
     /\ UNCHANGED eos_calls
     /\ IF token_text.threw # "none"
        THEN UNCHANGED <<state_, messages_, current_content_, current_role_,
                         current_channel_, current_recipient_,
                         current_content_type_, last_content_delta_>>
        ELSE CASE state_ = "ExpectStart" ->
                    /\ state_' = IF token_text.value = Tok_start
                                 THEN "Header" ELSE state_
                    /\ UNCHANGED <<messages_, current_content_, current_role_,
                                   current_channel_, current_recipient_,
                                   current_content_type_, last_content_delta_>>
               [] state_ = "Header" ->
                    /\ current_role_' = parse_role_from_token(token_text.value)
                    /\ state_' = IF current_role_' # <<>> THEN "Content" ELSE state_
                    /\ UNCHANGED <<messages_, current_content_, current_channel_,
                                   current_recipient_, current_content_type_,
                                   last_content_delta_>>
               [] state_ = "Content" ->
                    IF token_text.value \in {Tok_channel, Tok_constrain, Tok_message}
                    THEN UNCHANGED <<state_, messages_, current_content_,
                                     current_role_, current_channel_,
                                     current_recipient_, current_content_type_,
                                     last_content_delta_>>
                    ELSE IF token_text.value = Tok_end
                    THEN /\ finalize_current_message
                         /\ state_' = "ExpectStart"
                         /\ UNCHANGED last_content_delta_
                    ELSE /\ current_content_' = current_content_ \o token_text.value
                         /\ last_content_delta_' = <<token_text.value>>
                         /\ UNCHANGED <<state_, messages_, current_role_,
                                        current_channel_, current_recipient_,
                                        current_content_type_>>

\* A process_eos that discards the messages completed before the call.
process_eos_forgetting ==
  /\ IF state_ = "Content" /\ current_content_ # <<>> /\ current_role_ # <<>>
     THEN /\ messages_' = <<Message(Author(current_role_[1]),
                                    <<TextContent(current_content_)>>)>>
          /\ current_content_' = <<>>
          /\ current_role_' = <<>>
          /\ UNCHANGED <<current_channel_, current_recipient_,
                         current_content_type_>>
     ELSE UNCHANGED <<messages_, current_content_, current_role_, current_channel_,
                      current_recipient_, current_content_type_>>
  /\ last_call' = [op |-> "process_eos", threw |-> "none"]
  /\ eos_calls' = eos_calls + 1
  /\ UNCHANGED <<state_, tokens_, last_content_delta_>>

\* StreamableParser::process_eos
process_eos ==
  /\ IF state_ = "Content" /\ current_content_ # <<>>
     THEN finalize_current_message
     ELSE UNCHANGED <<messages_, current_content_, current_role_, current_channel_,
                      current_recipient_, current_content_type_>>
  /\ last_call' = [op |-> "process_eos", threw |-> "none"]
  /\ eos_calls' = eos_calls + 1
  /\ UNCHANGED <<state_, tokens_, last_content_delta_>>

\* StreamableParser::StreamableParser
StreamableParser ==
  /\ state_ = "ExpectStart"
  /\ tokens_ = <<>>
  /\ messages_ = <<>>
  /\ current_content_ = <<>>
  /\ current_role_ = <<>>
  /\ current_channel_ = <<>>
  /\ current_recipient_ = <<>>
  /\ current_content_type_ = <<>>
  /\ last_content_delta_ = <<>>
  /\ last_call = [op |-> "none", threw |-> "none"]
  /\ eos_calls = 0

\* No call has been made on the tokenizer, none for a completion.
NoTokenizerCall ==
  /\ input_text = <<>>
  /\ ranks_gap = {}
  /\ allowed_ = {}
  /\ tokenizer_call = [op |-> "none", threw |-> "none"]
  /\ encoded = <<>>
  /\ decoded = <<>>

NoOtherCall ==
  /\ results = <<>>
  /\ conversation_json = <<>>
  /\ restored = <<>>

NoDirectCall == NoTokenizerCall /\ completion_call = <<>> /\ NoOtherCall

(***************************************************************************)
(* Bounded inputs.                                                         *)
(***************************************************************************)
MaxMessages == 2     \* messages in a conversation
MaxStreamLen == 5    \* tokens fed to a free-running parser
MaxEos == 1          \* process_eos calls on a free-running parser

\* "Hi", "é", "final", "x", "json", "M"
In_Hi == <<72, 105>>
In_e_acute == <<195, 169>>
In_final == <<102, 105, 110, 97, 108>>
In_x == <<120>>
In_json == <<106, 115, 111, 110>>
In_M == <<77>>

\* Messages with a one-text body and every combination of header fields.
HeaderMessages ==
  {[Message(Author(role), <<TextContent(In_Hi)>>)
      EXCEPT !.channel = channel, !.recipient = recipient,
             !.content_type = content_type] :
     role \in {"User", "Assistant"}, channel \in {<<>>, <<In_final>>},
     recipient \in {<<>>, <<In_x>>}, content_type \in {<<>>, <<In_json>>}}

\* Messages without header fields: no content, a two-byte character, two
\* text contents, a system content.
BodyMessages ==
  {Message(Author("User"), <<>>),
   Message(Author("User"), <<TextContent(In_e_acute)>>),
   Message(Author("Tool"), <<TextContent(In_Hi), TextContent(In_x)>>),
   Message(Author("System"),
           <<[EmptySystemContent EXCEPT !.model_identity = <<In_M>>]>>)}

Messages == HeaderMessages \cup BodyMessages

Conversations ==
  UNION {[1..n -> Messages] : n \in 0..MaxMessages}

\* The tokens a caller may feed to a free-running parser: <|start|>, <|end|>,
\* <|message|>, <|channel|>, <|call|>, <|user|> and the byte "H".
StreamTokens == {200000, 200001, 200002, 200003, 200005, 200012, 72}

(***************************************************************************)
(* The callers of the tests.                                               *)
(***************************************************************************)
\* The text of message.content as the renderer writes it.
body_text(message) ==
  Concat([k \in 1..Len(message.content) |->
            CASE message.content[k].type = "text" -> message.content[k].text
              [] message.content[k].type = "system_content" ->
                   system_content_text(message.content[k])
              [] message.content[k].type = "developer_content" ->
                   developer_content_text(message.content[k])])

\* The harmony text the tests spell for a message:
\* "<|start|>" role name ["<|channel|>" channel] [" to=" recipient]
\* ["<|constrain|>" content type] "<|message|>" body "<|end|>".
harmony_text_of(message) ==
  Tok_start \o role_to_string(message.author.role)
  \o (IF message.channel # <<>> THEN Tok_channel \o message.channel[1] ELSE <<>>)
  \o (IF message.recipient # <<>>
      THEN Str_to_marker \o message.recipient[1] ELSE <<>>)
  \o (IF message.content_type # <<>>
      THEN Tok_constrain \o message.content_type[1] ELSE <<>>)
  \o Tok_message \o body_text(message) \o Tok_end

harmony_text(conv) == Concat([k \in 1..Len(conv) |-> harmony_text_of(conv[k])])

\* encoding_->render_conversation(conversation)
RenderConversation ==
  /\ tokenized_by = "none"
  /\ \E rendered \in {render_conversation(conversation, <<>>)} :
       /\ tokenized_by' = IF rendered.threw = "none"
                          THEN "render_conversation" ELSE rendered.threw
       /\ tokens' = rendered.value
  /\ UNCHANGED <<sort_tie, conversation, parsed, parser_vars, direct_vars>>

\* encoding_->tokenizer().encode_with_special_tokens(harmony_text)
EncodeWithSpecialTokens ==
  /\ tokenized_by = "none"
  /\ tokenized_by' = "encode_with_special_tokens"
  /\ tokens' = encode_with_special_tokens(harmony_text(conversation))
  /\ UNCHANGED <<sort_tie, conversation, parsed, parser_vars, direct_vars>>

\* encoding_->parse_messages_from_completion_tokens(tokens)
ParseMessagesFromCompletionTokens ==
  /\ tokenized_by \in {"render_conversation", "encode_with_special_tokens",
                      "completion"}
  /\ parsed = <<>>
  /\ parsed' = <<parse_messages_from_completion_tokens(tokens, <<>>)>>
  /\ UNCHANGED <<sort_tie, conversation, tokenized_by, tokens, parser_vars,
                 direct_vars>>

\* for (Rank token : tokens) parser.process(token): an exception ends the loop.
Process ==
  /\ parsed # <<>>
  /\ eos_calls = 0
  /\ last_call.threw = "none"
  /\ Len(tokens_) < Len(tokens)
  /\ process(tokens[Len(tokens_) + 1])
  /\ UNCHANGED <<caller_vars, direct_vars>>

\* parser.process_eos() after the loop
ProcessEos ==
  /\ parsed # <<>>
  /\ eos_calls = 0
  /\ last_call.threw = "none"
  /\ Len(tokens_) = Len(tokens)
  /\ process_eos
  /\ UNCHANGED <<caller_vars, direct_vars>>

Init ==
  /\ sort_tie \in {"leftmost", "rightmost"}
  /\ conversation \in Conversations
  /\ tokenized_by = "none"
  /\ tokens = <<>>
  /\ parsed = <<>>
  /\ StreamableParser
  /\ NoDirectCall

Next ==
  \/ RenderConversation
  \/ EncodeWithSpecialTokens
  \/ ParseMessagesFromCompletionTokens
  \/ Process
  \/ ProcessEos

Spec == Init /\ [][Next]_vars

(***************************************************************************)
(* A parser fed any tokens, with process_eos called at any time.           *)
(***************************************************************************)
StreamProcess ==
  /\ Len(tokens_) < MaxStreamLen
  /\ \E token \in StreamTokens : process(token)
  /\ UNCHANGED <<caller_vars, direct_vars>>

StreamProcessEos ==
  /\ eos_calls < MaxEos
  /\ process_eos
  /\ UNCHANGED <<caller_vars, direct_vars>>

StreamInit ==
  /\ sort_tie \in {"leftmost", "rightmost"}
  /\ conversation = <<>>
  /\ tokenized_by = "stream"
  /\ tokens = <<>>
  /\ parsed = <<>>
  /\ StreamableParser
  /\ NoDirectCall

StreamNext == StreamProcess \/ StreamProcessEos

StreamSpec == StreamInit /\ [][StreamNext]_vars

(***************************************************************************)
(* A parser fed enough tokens for several messages, with process_eos       *)
(* called at any time.                                                     *)
(***************************************************************************)
MaxLongStreamLen == 7

\* <|start|>, <|end|>, <|user|> and the byte "H".
LongStreamTokens == {200000, 200001, 200012, 72}

LongStreamProcess ==
  /\ Len(tokens_) < MaxLongStreamLen
  /\ \E token \in LongStreamTokens : process(token)
  /\ UNCHANGED <<caller_vars, direct_vars>>

LongStreamNext == LongStreamProcess \/ StreamProcessEos

LongStreamSpec == StreamInit /\ [][LongStreamNext]_vars


(***************************************************************************)
(* A parser fed a message that stops before its end marker.                *)
(***************************************************************************)
\* The harmony text of message up to and without its "<|end|>".
partial_text(message) ==
  SubSeq(harmony_text_of(message), 1,
         Len(harmony_text_of(message)) - Len(Tok_end))

\* encoding_->tokenizer().encode_with_special_tokens(partial_text)
EncodePartialText ==
  /\ tokenized_by = "none"
  /\ tokenized_by' = "partial_text"
  /\ tokens' = encode_with_special_tokens(partial_text(conversation[1]))
  /\ UNCHANGED <<sort_tie, conversation, parsed, parser_vars, direct_vars>>

\* for (Rank token : tokens) parser_->process(token)
ProcessPartial ==
  /\ tokenized_by = "partial_text"
  /\ eos_calls = 0
  /\ last_call.threw = "none"
  /\ Len(tokens_) < Len(tokens)
  /\ process(tokens[Len(tokens_) + 1])
  /\ UNCHANGED <<caller_vars, direct_vars>>

\* parser_->process_eos() once the partial message has been fed
ProcessEosPartial ==
  /\ tokenized_by = "partial_text"
  /\ eos_calls = 0
  /\ last_call.threw = "none"
  /\ Len(tokens_) = Len(tokens)
  /\ process_eos
  /\ UNCHANGED <<caller_vars, direct_vars>>

PartialInit ==
  /\ sort_tie \in {"leftmost", "rightmost"}
  /\ conversation \in {<<m>> : m \in {x \in Messages : body_text(x) # <<>>}}
  /\ tokenized_by = "none"
  /\ tokens = <<>>
  /\ parsed = <<>>
  /\ StreamableParser
  /\ NoDirectCall

PartialNext == EncodePartialText \/ ProcessPartial \/ ProcessEosPartial

PartialSpec == PartialInit /\ [][PartialNext]_vars

(***************************************************************************)
(* The tokenizer called directly on a byte string.                         *)
(***************************************************************************)
MaxTextLen == 4      \* bytes of a text drawn from TextBytes

\* 'a', 'n', ' ' and the lead byte 0xC3: "an" is a vocabulary pair, "anan"
\* holds it twice, a space splits the text into pieces.
TextBytes == {97, 110, 32, 195}

\* The texts handed to the tokenizer: every string over TextBytes up to
\* MaxTextLen bytes, and the literals <|end|> and <|start|> alone, between
\* such bytes and before another literal.
Texts ==
  UNION {[1..n -> TextBytes] : n \in 0..MaxTextLen}
  \cup {before \o literal \o after :
          before \in {<<>>, <<97>>, <<32>>}, literal \in {Tok_end, Tok_start},
          after \in {<<>>, <<110>>, Tok_end, <<97>> \o Tok_start}}

\* The allowed_special sets handed to encode: none, <|end|> only, all.
AllowedSets == {{}, {Tok_end}, DOMAIN special_tokens_encoder_}

\* The ranks handed to byte_pair_encode: the registry's vocabulary, and the
\* same without an entry for the byte 0xC3.
RanksGaps == {{}, {<<195>>}}
ranks_without(gap) == [piece \in DOMAIN encoder_ \ gap |-> encoder_[piece]]

\* tokenizer.encode_ordinary(test_text)
EncodeOrdinary ==
  /\ tokenizer_call.op = "none"
  /\ tokenizer_call' = [op |-> "encode_ordinary", threw |-> "none"]
  /\ encoded' = encode_ordinary(input_text)
  /\ UNCHANGED <<input_text, ranks_gap, allowed_, decoded, completion_call, other_vars,
                 caller_vars, parser_vars>>

\* tokenizer.encode(text, allowed_special)
Encode ==
  /\ tokenizer_call.op = "none"
  /\ tokenizer_call' = [op |-> "encode", threw |-> "none"]
  /\ \E allowed \in AllowedSets :
       /\ allowed_' = allowed
       /\ encoded' = encode(input_text, allowed).tokens
  /\ UNCHANGED <<input_text, ranks_gap, decoded, completion_call, other_vars,
                 caller_vars, parser_vars>>

\* byte_pair_encode(piece, ranks)
BytePairEncode ==
  /\ tokenizer_call.op = "none"
  /\ tokenizer_call' = [op |-> "byte_pair_encode", threw |-> "none"]
  /\ \E gap \in RanksGaps :
       /\ ranks_gap' = gap
       /\ encoded' = byte_pair_encode(input_text, ranks_without(gap))
  /\ UNCHANGED <<input_text, allowed_, decoded, completion_call, other_vars,
                 caller_vars, parser_vars>>

\* tokenizer.decode_bytes(tokens)
DecodeBytes ==
  /\ tokenizer_call.op # "none"
  /\ decoded = <<>>
  /\ decoded' = <<decode_bytes(encoded)>>
  /\ UNCHANGED <<input_text, ranks_gap, allowed_, tokenizer_call, encoded,
                 completion_call, other_vars, caller_vars, parser_vars>>

TokenizerInit ==
  /\ sort_tie \in {"leftmost", "rightmost"}
  /\ conversation = <<>>
  /\ tokenized_by = "none"
  /\ tokens = <<>>
  /\ parsed = <<>>
  /\ StreamableParser
  /\ input_text \in Texts
  /\ ranks_gap = {}
  /\ allowed_ = {}
  /\ tokenizer_call = [op |-> "none", threw |-> "none"]
  /\ encoded = <<>>
  /\ decoded = <<>>
  /\ completion_call = <<>>
  /\ NoOtherCall

TokenizerNext == EncodeOrdinary \/ Encode \/ BytePairEncode \/ DecodeBytes

TokenizerSpec == TokenizerInit /\ [][TokenizerNext]_vars

(***************************************************************************)
(* The tokenizer called directly on a rank list.                           *)
(***************************************************************************)
MaxRanksLen == 3     \* ranks of a list drawn from SampleRanks

\* 'a', the two bytes of "é", the pair "an", <|end|>, and three ranks that
\* are in neither decoder.
SampleRanks == {97, 195, 169, 260, 200001, 321, 9999, 999999}

RankLists == UNION {[1..n -> SampleRanks] : n \in 0..MaxRanksLen}

\* tokenizer_->decode_bytes(tokens)
DecodeBytesOf ==
  /\ tokenizer_call.op = "none"
  /\ \E toks \in RankLists :
       /\ encoded' = toks
       /\ decoded' = <<decode_bytes(toks)>>
       /\ tokenizer_call' = [op |-> "decode_bytes", threw |-> decoded'[1].threw]
  /\ UNCHANGED <<input_text, ranks_gap, allowed_, completion_call, other_vars,
                 caller_vars, parser_vars>>

\* tokenizer().decode_utf8(tokens)
DecodeUtf8Of ==
  /\ tokenizer_call.op = "none"
  /\ \E toks \in RankLists :
       /\ encoded' = toks
       /\ decoded' = <<decode_utf8(toks)>>
       /\ tokenizer_call' = [op |-> "decode_utf8", threw |-> decoded'[1].threw]
  /\ UNCHANGED <<input_text, ranks_gap, allowed_, completion_call, other_vars,
                 caller_vars, parser_vars>>

DecoderInit ==
  /\ sort_tie \in {"leftmost", "rightmost"}
  /\ conversation = <<>>
  /\ tokenized_by = "none"
  /\ tokens = <<>>
  /\ parsed = <<>>
  /\ StreamableParser
  /\ NoDirectCall

DecoderNext == DecodeBytesOf \/ DecodeUtf8Of

DecoderSpec == DecoderInit /\ [][DecoderNext]_vars

(***************************************************************************)
(* The parsers given one block with any role name.                         *)
(***************************************************************************)
\* The five role names, and "x" and "M", which name no role.
RoleNames == {Str_system, Str_user, Str_assistant, Str_developer, Str_tool,
              In_x, In_M}

\* "<|start|>" name "<|message|>" body "<|end|>"
role_block(name, body) == Tok_start \o name \o Tok_message \o body \o Tok_end

\* encoding_->tokenizer().encode_with_special_tokens(harmony_text)
EncodeInputText ==
  /\ tokenized_by = "none"
  /\ tokenized_by' = "encode_with_special_tokens"
  /\ tokens' = encode_with_special_tokens(input_text)
  /\ UNCHANGED <<sort_tie, conversation, parsed, parser_vars, direct_vars>>

RoleInit ==
  /\ sort_tie \in {"leftmost", "rightmost"}
  /\ conversation = <<>>
  /\ tokenized_by = "none"
  /\ tokens = <<>>
  /\ parsed = <<>>
  /\ StreamableParser
  /\ input_text \in {role_block(name, body) :
                        name \in RoleNames, body \in {In_Hi, In_x}}
  /\ ranks_gap = {}
  /\ allowed_ = {}
  /\ tokenizer_call = [op |-> "none", threw |-> "none"]
  /\ encoded = <<>>
  /\ decoded = <<>>
  /\ completion_call = <<>>
  /\ NoOtherCall

RoleNext ==
  \/ EncodeInputText
  \/ ParseMessagesFromCompletionTokens
  \/ Process
  \/ ProcessEos

RoleSpec == RoleInit /\ [][RoleNext]_vars

(***************************************************************************)
(* encode_ordinary called on one text by several callers: on two           *)
(* separately loaded encodings, and by threads that share an encoding.     *)
(* A call reads the encoder and the regular expressions, which nothing     *)
(* writes after construction, and writes only its own result.              *)
(***************************************************************************)
MaxCalls == 3        \* calls of encode_ordinary on the text

Callers == {"encoding1", "encoding2", "thread 0", "thread 1"}

\* results[i] = encoding->tokenizer().encode_ordinary(test_text)
CallEncodeOrdinary ==
  /\ Len(results) < MaxCalls
  /\ \E caller \in Callers :
       results' = Append(results, [caller |-> caller,
                                   tokens |-> encode_ordinary(input_text)])
  /\ UNCHANGED <<caller_vars, parser_vars, tokenizer_vars, completion_call,
                 conversation_json, restored>>

CallersInit ==
  /\ sort_tie \in {"leftmost", "rightmost"}
  /\ conversation = <<>>
  /\ tokenized_by = "none"
  /\ tokens = <<>>
  /\ parsed = <<>>
  /\ StreamableParser
  /\ input_text \in UNION {[1..n -> {97, 110}] : n \in 0..MaxTextLen}
  /\ ranks_gap = {}
  /\ allowed_ = {}
  /\ tokenizer_call = [op |-> "none", threw |-> "none"]
  /\ encoded = <<>>
  /\ decoded = <<>>
  /\ completion_call = <<>>
  /\ NoOtherCall

CallersNext == CallEncodeOrdinary

CallersSpec == CallersInit /\ [][CallersNext]_vars

(***************************************************************************)
(* The renderer called on a conversation.                                  *)
(***************************************************************************)
\* "analysis"
In_analysis == <<97, 110, 97, 108, 121, 115, 105, 115>>

\* An assistant message on the analysis channel.
AnalysisMessage ==
  [Message(Author("Assistant"), <<TextContent(In_Hi)>>)
     EXCEPT !.channel = <<In_analysis>>]

\* The messages of the conversations of several turns: a user message, a
\* system message, and assistant messages on the analysis channel, on the
\* final channel, to a recipient, and with every header field.
TurnMessages ==
  {Message(Author("User"), <<TextContent(In_Hi)>>),
   Message(Author("System"),
           <<[EmptySystemContent EXCEPT !.model_identity = <<In_M>>]>>),
   AnalysisMessage,
   [AnalysisMessage EXCEPT !.channel = <<In_final>>],
   [AnalysisMessage EXCEPT !.channel = <<>>, !.recipient = <<In_x>>],
   [AnalysisMessage EXCEPT !.channel = <<In_final>>, !.recipient = <<In_x>>,
                           !.content_type = <<In_json>>]}

\* Every message alone, and up to MaxMessages of TurnMessages.
RenderConversations ==
  {<<m>> : m \in Messages}
  \cup UNION {[1..n -> TurnMessages] : n \in 0..MaxMessages}

\* std::optional<RenderConversationConfig>: absent (auto_drop_analysis then
\* has its default, true), or present with the flag set or cleared.
RenderConfigs ==
  {<<>>, <<[auto_drop_analysis |-> TRUE]>>, <<[auto_drop_analysis |-> FALSE]>>}

\* encoding_->render_conversation_for_completion(conversation, role, config)
RenderConversationForCompletion ==
  /\ tokenized_by = "none"
  /\ \E next_turn_role \in Role, config \in RenderConfigs :
       /\ completion_call' =
            <<[next_turn_role |-> next_turn_role, config |-> config]>>
       /\ \E rendered \in {render_conversation_for_completion(
                              conversation, next_turn_role, config)} :
            /\ tokenized_by' = IF rendered.threw = "none"
                               THEN "render_conversation_for_completion"
                               ELSE rendered.threw
            /\ tokens' = rendered.value
  /\ UNCHANGED <<sort_tie, conversation, parsed, parser_vars, tokenizer_vars,
                 other_vars>>

RenderInit ==
  /\ sort_tie \in {"leftmost", "rightmost"}
  /\ conversation \in RenderConversations
  /\ tokenized_by = "none"
  /\ tokens = <<>>
  /\ parsed = <<>>
  /\ StreamableParser
  /\ NoDirectCall

RenderNext == RenderConversation \/ RenderConversationForCompletion

RenderSpec == RenderInit /\ [][RenderNext]_vars

(***************************************************************************)
(* chat.cpp: the conversion of the data model to and from nlohmann::json.  *)
(* A json value is a string, an array or an object; an object holds the    *)
(* keys that were assigned and no others.                                  *)
(***************************************************************************)
\* SystemContent::SystemContent: the model identity "You are ChatGPT, a large
\* language model trained by OpenAI.", the knowledge cutoff "2024-06" and
\* the channels "analysis", "commentary", "final".
new_system_content ==
  [EmptySystemContent EXCEPT
     !.model_identity =
        <<<<89, 111, 117, 32, 97, 114, 101, 32, 67, 104, 97, 116, 71, 80, 84, 44, 32, 97, 32, 108, 97, 114, 103, 101, 32, 108, 97, 110, 103, 117, 97, 103, 101, 32, 109, 111, 100, 101, 108, 32, 116, 114, 97, 105, 110, 101, 100, 32, 98, 121, 32, 79, 112, 101, 110, 65, 73, 46>>>>,
     !.reasoning_effort = <<"Medium">>,
     !.knowledge_cutoff = <<<<50, 48, 50, 52, 45, 48, 54>>>>,
     !.channel_config =
        <<require_channels(<<In_analysis,
                             <<99, 111, 109, 109, 101, 110, 116, 97, 114, 121>>,
                             In_final>>)>>]

\* nlohmann::json holding a string, a boolean or an array
json(kind, value) == [kind |-> kind, value |-> value]

\* nlohmann::json{{key, value}}: an object with one key
json_object(key, value) == [kind |-> "object", value |-> (key :> value)]

\* j[key] = value
json_set(j, key, value) == [j EXCEPT !.value = (key :> value) @@ j.value]

\* if (optional) j[key] = *optional, for an optional string
json_set_optional(j, key, optional) ==
  IF optional # <<>> THEN json_set(j, key, json("string", optional[1])) ELSE j

\* j.contains(key)
json_contains(j, key) == key \in DOMAIN j.value

\* if (j.contains(key)) field = j.at(key).get<std::string>(), on a field
\* that holds `field` before the call
get_optional(j, key, field) ==
  IF json_contains(j, key) THEN <<j.value[key].value>> ELSE field

\* string_to_role: the role, or no role where the code throws
string_to_role(str) ==
  CASE str = Str_user -> <<"User">>
    [] str = Str_assistant -> <<"Assistant">>
    [] str = Str_system -> <<"System">>
    [] str = Str_developer -> <<"Developer">>
    [] str = Str_tool -> <<"Tool">>
    [] OTHER -> <<>>

\* to_json(Role)
to_json_Role(role) == json("string", role_to_string(role))

\* to_json(ReasoningEffort)
to_json_ReasoningEffort(effort) == json("string", reasoning_effort_to_string(effort))

\* from_json(ReasoningEffort): the effort, or no effort where the code throws
from_json_ReasoningEffort(j) ==
  CASE j.value = Str_low -> <<"Low">>
    [] j.value = Str_medium -> <<"Medium">>
    [] j.value = Str_high -> <<"High">>
    [] OTHER -> <<>>

\* to_json(ChannelConfig)
to_json_ChannelConfig(config) ==
  json_set(json_object("valid_channels",
                       json("array", [k \in 1..Len(config.valid_channels) |->
                                     json("string", config.valid_channels[k])])),
           "channel_required", json("boolean", config.channel_required))

\* from_json(ChannelConfig)
from_json_ChannelConfig(j) ==
  [valid_channels |->
     [k \in 1..Len(j.value["valid_channels"].value) |->
        j.value["valid_channels"].value[k].value],
   channel_required |-> j.value["channel_required"].value]

\* to_json(TextContent)
to_json_TextContent(content) ==
  json_set(json_object("type", json("string", "text")),
           "text", json("string", content.text))

\* from_json(TextContent), on a default-constructed TextContent
from_json_TextContent(j) == TextContent(j.value["text"].value)

\* to_json(SystemContent); the tools of a content are a map from namespace
\* names to namespaces, written as an object with the same keys
to_json_SystemContent(content) ==
  LET j0 == json_object("type", json("string", "system_content"))
      j1 == json_set_optional(j0, "model_identity", content.model_identity)
      j2 == IF content.reasoning_effort # <<>>
            THEN json_set(j1, "reasoning_effort",
                          to_json_ReasoningEffort(content.reasoning_effort[1]))
            ELSE j1
      j3 == IF content.tools # <<>>
            THEN json_set(j2, "tools",
                          [kind |-> "object", value |-> content.tools[1]])
            ELSE j2
      j4 == json_set_optional(j3, "conversation_start_date",
                              content.conversation_start_date)
      j5 == json_set_optional(j4, "knowledge_cutoff", content.knowledge_cutoff)
  IN IF content.channel_config # <<>>
     THEN json_set(j5, "channel_config",
                   to_json_ChannelConfig(content.channel_config[1]))
     ELSE j5

\* from_json(SystemContent), on a content that holds `content` before the
\* call: a field whose key is absent keeps the value it had
from_json_SystemContent(j, content) ==
  [type |-> "system_content",
   model_identity |-> get_optional(j, "model_identity", content.model_identity),
   reasoning_effort |->
     IF json_contains(j, "reasoning_effort")
     THEN from_json_ReasoningEffort(j.value["reasoning_effort"])
     ELSE content.reasoning_effort,
   tools |->
     IF json_contains(j, "tools") THEN <<j.value["tools"].value>>
     ELSE content.tools,
   conversation_start_date |->
     get_optional(j, "conversation_start_date", content.conversation_start_date),
   knowledge_cutoff |->
     get_optional(j, "knowledge_cutoff", content.knowledge_cutoff),
   channel_config |->
     IF json_contains(j, "channel_config")
     THEN <<from_json_ChannelConfig(j.value["channel_config"])>>
     ELSE content.channel_config]

\* to_json(DeveloperContent)
to_json_DeveloperContent(content) ==
  LET j1 == json_set_optional(json_object("type", json("string", "developer_content")),
                              "instructions", content.instructions)
  IN IF content.tools # <<>>
     THEN json_set(j1, "tools", [kind |-> "object", value |-> content.tools[1]])
     ELSE j1

\* from_json(DeveloperContent), on a content that holds `content` before
\* the call
from_json_DeveloperContent(j, content) ==
  [type |-> "developer_content",
   instructions |-> get_optional(j, "instructions", content.instructions),
   tools |->
     IF json_contains(j, "tools") THEN <<j.value["tools"].value>>
     ELSE content.tools]

\* to_json(Content): std::visit on the alternative held
to_json_Content(content) ==
  CASE content.type = "text" -> to_json_TextContent(content)
    [] content.type = "system_content" -> to_json_SystemContent(content)
    [] content.type = "developer_content" -> to_json_DeveloperContent(content)

\* from_json(Content): the content read into a default-constructed
\* TextContent, SystemContent or DeveloperContent
from_json_Content(j) ==
  CASE j.value["type"].value = "text" -> from_json_TextContent(j)
    [] j.value["type"].value = "system_content" ->
         from_json_SystemContent(j, new_system_content)
    [] j.value["type"].value = "developer_content" ->
         from_json_DeveloperContent(j, EmptyDeveloperContent)

\* to_json(Message)
to_json_Message(message) ==
  LET j0 == json_set(json_object("role", to_json_Role(message.author.role)),
                     "content",
                     json("array", [k \in 1..Len(message.content) |->
                                   to_json_Content(message.content[k])]))
      j1 == json_set_optional(j0, "name", message.author.name)
      j2 == json_set_optional(j1, "recipient", message.recipient)
      j3 == json_set_optional(j2, "channel", message.channel)
  IN json_set_optional(j3, "content_type", message.content_type)

\* from_json(Message), on a message that holds `message` before the call
from_json_Message(j, message) ==
  [author |->
     [role |-> string_to_role(j.value["role"].value)[1],
      name |-> get_optional(j, "name", message.author.name)],
   content |->
     IF j.value["content"].kind = "string"
     THEN <<TextContent(j.value["content"].value)>>
     ELSE [k \in 1..Len(j.value["content"].value) |->
             from_json_Content(j.value["content"].value[k])],
   recipient |-> get_optional(j, "recipient", message.recipient),
   channel |-> get_optional(j, "channel", message.channel),
   content_type |-> get_optional(j, "content_type", message.content_type)]

\* to_json(Conversation)
to_json_Conversation(conv) ==
  json_object("messages",
              json("array", [k \in 1..Len(conv) |-> to_json_Message(conv[k])]))

\* from_json(Conversation): every element read into Message(Author(User), {});
\* the call throws std::invalid_argument on a role, a content type or a
\* reasoning effort that is not one of the names.
from_json_Conversation(j) ==
  LET unknown_content(item) ==
        \/ item.value["type"].value
             \notin {"text", "system_content", "developer_content"}
        \/ /\ item.value["type"].value = "system_content"
           /\ json_contains(item, "reasoning_effort")
           /\ from_json_ReasoningEffort(item.value["reasoning_effort"]) = <<>>
      unknown_in(m) ==
        \/ string_to_role(m.value["role"].value) = <<>>
        \/ /\ m.value["content"].kind = "array"
           /\ \E c \in 1..Len(m.value["content"].value) :
                unknown_content(m.value["content"].value[c])
  IN IF \E k \in 1..Len(j.value["messages"].value) :
          unknown_in(j.value["messages"].value[k])
     THEN Throws("invalid_argument")
     ELSE Returns([k \in 1..Len(j.value["messages"].value) |->
                     from_json_Message(j.value["messages"].value[k],
                                       Message(Author("User"), <<>>))])

(***************************************************************************)
(* A conversation converted to json and read back.                         *)
(***************************************************************************)
\* An assistant message with a named author and every header field.
NamedMessage ==
  [Message([role |-> "Assistant", name |-> <<In_M>>], <<TextContent(In_Hi)>>)
     EXCEPT !.channel = <<In_final>>, !.recipient = <<In_x>>,
            !.content_type = <<In_json>>]

\* The messages converted: text messages, system contents as constructed,
\* with fields assigned and with fields reset, developer contents.
JsonMessages ==
  {Message(Author("User"), <<TextContent(In_Hi)>>),
   Message(Author("Tool"), <<TextContent(In_Hi), TextContent(In_x)>>),
   NamedMessage,
   Message(Author("System"), <<new_system_content>>),
   Message(Author("System"),
           <<[new_system_content EXCEPT !.model_identity = <<In_M>>,
                                        !.reasoning_effort = <<"High">>,
                                        !.conversation_start_date = <<In_x>>]>>),
   Message(Author("System"),
           <<[EmptySystemContent EXCEPT !.model_identity = <<In_M>>]>>),
   Message(Author("Developer"),
           <<[EmptyDeveloperContent EXCEPT !.instructions = <<In_Hi>>]>>),
   Message(Author("Developer"), <<EmptyDeveloperContent>>)}

JsonConversations ==
  UNION {[1..n -> JsonMessages] : n \in 0..MaxMessages}

\* nlohmann::json j = conversation;
ToJson ==
  /\ conversation_json = <<>>
  /\ conversation_json' = <<to_json_Conversation(conversation)>>
  /\ UNCHANGED <<caller_vars, parser_vars, tokenizer_vars, completion_call,
                 results, restored>>

\* from_json(j, restored_conversation);
FromJson ==
  /\ conversation_json # <<>>
  /\ restored = <<>>
  /\ restored' = <<from_json_Conversation(conversation_json[1])>>
  /\ UNCHANGED <<caller_vars, parser_vars, tokenizer_vars, completion_call,
                 results, conversation_json>>

JsonInit ==
  /\ sort_tie \in {"leftmost", "rightmost"}
  /\ conversation \in JsonConversations
  /\ tokenized_by = "none"
  /\ tokens = <<>>
  /\ parsed = <<>>
  /\ StreamableParser
  /\ NoDirectCall

JsonNext == ToJson \/ FromJson

JsonSpec == JsonInit /\ [][JsonNext]_vars

(***************************************************************************)
(* A rendered conversation of plain text messages fed to the parsers.      *)
(***************************************************************************)
MaxTurns == 2

\* "a b"
In_a_b == <<97, 32, 98>>

\* Messages of one ASCII text and no header field: every role, an empty
\* text, a text of two words, a text that spells <|end|>.
SimpleMessages ==
  {Message(Author(role), <<TextContent(In_Hi)>>) : role \in Role}
  \cup {Message(Author("User"), <<TextContent(<<>>)>>),
        Message(Author("Assistant"), <<TextContent(In_a_b)>>),
        Message(Author("User"), <<TextContent(Tok_end)>>)}

SimpleConversations ==
  UNION {[1..n -> SimpleMessages] : n \in 0..MaxTurns}

RoundTripInit ==
  /\ sort_tie \in {"leftmost", "rightmost"}
  /\ conversation \in SimpleConversations
  /\ tokenized_by = "none"
  /\ tokens = <<>>
  /\ parsed = <<>>
  /\ StreamableParser
  /\ NoDirectCall

RoundTripNext ==
  \/ RenderConversation
  \/ ParseMessagesFromCompletionTokens
  \/ Process
  \/ ProcessEos

RoundTripSpec == RoundTripInit /\ [][RoundTripNext]_vars

(***************************************************************************)
(* The parsers given the tokens of a completion: one block whose role and  *)
(* body are ordinary ranks, every byte written as the rank of that byte.   *)
(***************************************************************************)
\* The role part of a block: "x", "u", "<".
CompletionRoles == {<<120>>, <<117>>, <<60>>}

\* The text "<|end|><|start|>x<|message|>x" byte by byte.
In_spelled_block == Tok_end \o Tok_start \o In_x \o Tok_message \o In_x

\* The body part of a block: "H", "<", the spelled block, and as many "x"
\* as the spelled block has bytes.
CompletionBodies ==
  {<<72>>, <<60>>, In_spelled_block,
   [k \in 1..Len(In_spelled_block) |-> 120]}

CompletionTokenLists ==
  {<<200000>> \o role \o <<200002>> \o body \o <<200001>> :
     role \in CompletionRoles, body \in CompletionBodies}

CompletionInit ==
  /\ sort_tie \in {"leftmost", "rightmost"}
  /\ conversation = <<>>
  /\ tokenized_by = "completion"
  /\ tokens \in CompletionTokenLists
  /\ parsed = <<>>
  /\ StreamableParser
  /\ NoDirectCall

CompletionNext ==
  \/ ParseMessagesFromCompletionTokens
  \/ Process
  \/ ProcessEos

CompletionSpec == CompletionInit /\ [][CompletionNext]_vars




(***************************************************************************)
(* What the specification expects of a conversation, for the properties.   *)
(***************************************************************************)
\* strip_empty: the messages whose content list is not empty.
strip_empty(conv) == SelectSeq(conv, LAMBDA m : m.content # <<>>)

\* The message a parser is expected to give back for message: its role,
\* channel, recipient and content type, and its body as one text.
expected_message(message) ==
  [Message(Author(message.author.role), <<TextContent(body_text(message))>>)
     EXCEPT !.channel = message.channel,
            !.recipient = message.recipient,
            !.content_type = message.content_type]

expected_messages(conv) == [k \in 1..Len(conv) |-> expected_message(conv[k])]

RankOf(literal) == special_tokens_encoder_[literal]

RoleRanks ==
  {RankOf(Tok_system), RankOf(Tok_user), RankOf(Tok_assistant),
   RankOf(Tok_developer), RankOf(Tok_tool)}

\* This step is a process call; ProcessedToken is the token it was given.
IsProcessStep == Len(tokens_') = Len(tokens_) + 1
ProcessedToken == tokens_'[Len(tokens_')]

\* The index in toks of the last <|start|> token, as a set.
last_start_index(toks) ==
  LET starts == {i \in 1..Len(toks) : toks[i] = RankOf(Tok_start)}
  IN IF starts = {} THEN {} ELSE {Max(starts)}

\* A message is open after toks: a <|start|> was received and no <|end|>
\* since.
open_message(toks) ==
  /\ last_start_index(toks) # {}
  /\ \A i \in 1..Len(toks) :
       i > Max(last_start_index(toks)) => toks[i] # RankOf(Tok_end)

\* The number of the open message: one more than the <|end|> tokens received.
open_message_number(toks) ==
  Cardinality({i \in 1..Len(toks) : toks[i] = RankOf(Tok_end)}) + 1

\* The index in toks of the <|message|> token of the open message (the first
\* one after the last <|start|>), as a set: empty if there is none yet.
message_token_index(toks) ==
  LET found == {i \in 1..Len(toks) :
                  /\ toks[i] = RankOf(Tok_message)
                  /\ last_start_index(toks) # {}
                  /\ i > Max(last_start_index(toks))}
  IN IF found = {} THEN {} ELSE {Min(found)}

\* The decoded text of the tokens received after that <|message|> token.
text_after_message(toks) ==
  IF message_token_index(toks) = {} THEN <<>>
  ELSE decode_bytes(SubSeq(toks, Min(message_token_index(toks)) + 1,
                           Len(toks))).value

EmptyDelta == {<<>>, << <<>> >>}

(***************************************************************************)
(* Properties.                                                             *)
(***************************************************************************)
\* C1: parsing the tokens rendered for a conversation gives back exactly its
\* messages with a non-empty content list, in order, each with the same role,
\* channel, recipient, content type and text body.
C1_RenderParseRoundtrip ==
  (tokenized_by = "render_conversation" /\ parsed # <<>>) =>
    /\ parsed[1].threw = "none"
    /\ parsed[1].value = expected_messages(strip_empty(conversation))

\* C2: a token list fed to a fresh StreamableParser one token at a time and
\* then process_eos gives the same completed messages as the bulk parser
\* gives for the list.
C2_StreamEqualsBulk ==
  (last_call.op = "process_eos" /\ parsed # <<>>) =>
    /\ parsed[1].threw = "none"
    /\ messages_ = parsed[1].value

\* C3: the text received between <|channel|> and the next special token sets
\* the channel: once the <|message|> token of a message with a channel has
\* arrived current_channel() is that channel while the message is open, the
\* completed message carries it, and a trailing " to=<recipient>" of the text
\* is split off into the recipient.
C3_ChannelTextSetsChannel ==
  (tokenized_by \in {"render_conversation", "encode_with_special_tokens"}
   /\ last_call.threw = "none") =>
    /\ \A k \in 1..Len(messages_) :
         conversation[k].channel # <<>> =>
           /\ messages_[k].channel = conversation[k].channel
           /\ messages_[k].recipient = conversation[k].recipient
    /\ (/\ open_message(tokens_)
        /\ message_token_index(tokens_) # {}
        /\ conversation[open_message_number(tokens_)].channel # <<>>)
       => /\ current_channel_ = conversation[open_message_number(tokens_)].channel
          /\ current_recipient_ =
               conversation[open_message_number(tokens_)].recipient

\* C4: current_content() and the text of every completed message are exactly
\* the decoded text of the tokens received after the message's <|message|>
\* token; header text never appears in them.
C4_ContentIsTextAfterMessage ==
  (tokenized_by \in {"render_conversation", "encode_with_special_tokens"}
   /\ last_call.threw = "none") =>
    /\ \A k \in 1..Len(messages_) :
         messages_[k].content = <<TextContent(body_text(conversation[k]))>>
    /\ open_message(tokens_) => current_content_ = text_after_message(tokens_)

\* C5: in state Content each of <|end|> and <|call|> (and <|return|>, which
\* has no rank in this vocabulary) appends the current message to messages()
\* and moves the parser to ExpectStart.
C5_EndMarkersFinalize ==
  [][(/\ IsProcessStep
      /\ state_ = "Content"
      /\ ProcessedToken \in {RankOf(Tok_end), RankOf(Tok_call)})
     => /\ Len(messages_') = Len(messages_) + 1
        /\ SubSeq(messages_', 1, Len(messages_)) = messages_
        /\ state_' = "ExpectStart"]_vars

\* C6: in state ExpectStart the parser accepts only <|start|>, moving to
\* Header; any other token is rejected with an error.
C6_ExpectStartRejectsOthers ==
  [][(IsProcessStep /\ state_ = "ExpectStart")
     => IF ProcessedToken = RankOf(Tok_start)
        THEN last_call'.threw = "none" /\ state_' = "Header"
        ELSE last_call'.threw # "none"]_vars

\* C7: a role special token received in state Content is rejected with an
\* error.
C7_RoleSpecialInContentRejected ==
  [][(IsProcessStep /\ state_ = "Content" /\ ProcessedToken \in RoleRanks)
     => last_call'.threw # "none"]_vars

\* C8: when the two bytes of a code point arrive as two content tokens,
\* process succeeds on both: the first leaves current_content() unchanged
\* with an empty delta, the second appends the character and makes it the
\* delta; a delta is always valid UTF-8.
C8_SplitCodePointDeferred ==
  [][IsProcessStep =>
       /\ (/\ state_ = "Content"
           /\ ProcessedToken = In_e_acute[1]
           /\ message_token_index(tokens_) # {})
          => /\ last_call'.threw = "none"
             /\ current_content_' = current_content_
             /\ last_content_delta_' \in EmptyDelta
       /\ (/\ state_ = "Content"
           /\ ProcessedToken = In_e_acute[2]
           /\ tokens_ # <<>> /\ tokens_[Len(tokens_)] = In_e_acute[1])
          => /\ last_call'.threw = "none"
             /\ current_content_' = current_content_ \o In_e_acute
             /\ last_content_delta_' = <<In_e_acute>>
       /\ last_content_delta_' # <<>>
          => valid_utf8(last_content_delta_'[1], 1)]_vars

\* C9: after every process call last_content_delta is the text added by the
\* token if the token contributed content, and empty if the token was a
\* special token.
C9_DeltaOfLastToken ==
  [][(IsProcessStep /\ last_call'.threw = "none") =>
       IF ProcessedToken \in DOMAIN special_tokens_decoder_
       THEN last_content_delta_' \in EmptyDelta
       ELSE current_content_' # current_content_
            => /\ last_content_delta_' # <<>>
               /\ current_content_' = current_content_ \o last_content_delta_'[1]]_vars

\* C10: the tokens of encode_with_special_tokens of one or more blocks
\* "<|start|>" role name ["<|channel|>" channel] "<|message|>" body "<|end|>",
\* fed one at a time and followed by process_eos, give one completed message
\* per block, in order, with the block's role, channel and body.
C10_BlocksGiveMessages ==
  (/\ tokenized_by = "encode_with_special_tokens"
   /\ last_call.op = "process_eos"
   /\ conversation # <<>>
   /\ \A k \in 1..Len(conversation) :
        /\ conversation[k].recipient = <<>>
        /\ conversation[k].content_type = <<>>
        /\ body_text(conversation[k]) # <<>>)
  => messages_ = expected_messages(conversation)

\* C11: when the fed tokens stop in the middle of a message (start, role,
\* <|message|> and some body text, no end marker), current_content() is not
\* empty and messages() is empty before process_eos, and after process_eos
\* messages() holds exactly that one message.
C11_IncompleteThenEos ==
  (/\ tokenized_by = "partial_text"
   /\ Len(tokens_) = Len(tokens)
   /\ conversation[1].channel = <<>>
   /\ conversation[1].recipient = <<>>
   /\ conversation[1].content_type = <<>>)
  => IF eos_calls = 0
     THEN current_content_ # <<>> /\ messages_ = <<>>
     ELSE messages_ = <<expected_message(conversation[1])>>

\* C12: for every byte string s, decode_bytes(encode_ordinary(s)) is s byte
\* for byte, for the tokenizer the registry builds.
C12_DecodeEncodeOrdinary ==
  (tokenizer_call.op = "encode_ordinary" /\ decoded # <<>>)
  => decoded[1] = Returns(input_text)

\* A text with a space and a merged pair has been encoded and decoded.
C12_Witness ==
  /\ tokenizer_call.op = "encode_ordinary"
  /\ decoded # <<>>
  /\ \E i \in 1..Len(input_text) : IsSpace(input_text[i])
  /\ \E i \in 1..Len(encoded) : encoded[i] > 255

\* C13: for every input text, also one that spells a special literal such as
\* <|end|>, no rank returned by encode_ordinary is a reserved special-token
\* rank; the ordinary ranks and the reserved ranks of the loaded encoding are
\* disjoint.
C13_OrdinaryNeverReserved ==
  /\ tokenizer_call.op = "encode_ordinary"
       => \A i \in 1..Len(encoded) :
            encoded[i] \notin DOMAIN special_tokens_decoder_
  /\ DOMAIN decoder_ \cap DOMAIN special_tokens_decoder_ = {}

\* encode_ordinary has encoded a text that holds the literal <|end|>.
C13_Witness ==
  /\ tokenizer_call.op = "encode_ordinary"
  /\ encoded # <<>>
  /\ \E i \in 1..Len(input_text) :
       /\ i + Len(Tok_end) - 1 <= Len(input_text)
       /\ SubSeq(input_text, i, i + Len(Tok_end) - 1) = Tok_end

\* The reserved tokens among toks, in order.
reserved_of(toks) ==
  SelectSeq(toks, LAMBDA t : t \in DOMAIN special_tokens_decoder_)

\* The text of a message up to its end marker: "<|start|>", the role
\* special, ["<|channel|>" channel], [" to=" recipient],
\* ["<|constrain|>" content type], "<|message|>", body.
text_before_end(message) ==
  Tok_start \o role_to_special_token(message.author.role)
  \o (IF message.channel # <<>> THEN Tok_channel \o message.channel[1] ELSE <<>>)
  \o (IF message.recipient # <<>>
      THEN Str_to_marker \o message.recipient[1] ELSE <<>>)
  \o (IF message.content_type # <<>>
      THEN Tok_constrain \o message.content_type[1] ELSE <<>>)
  \o Tok_message \o body_text(message)

\* The reserved tokens of a message up to its end marker.
reserved_before_end(message) ==
  <<RankOf(Tok_start), RankOf(role_to_special_token(message.author.role))>>
  \o (IF message.channel # <<>> THEN <<RankOf(Tok_channel)>> ELSE <<>>)
  \o (IF message.content_type # <<>> THEN <<RankOf(Tok_constrain)>> ELSE <<>>)
  \o <<RankOf(Tok_message)>>

\* The end markers that have a rank.
EndMarkers == {RankOf(Tok_end), RankOf(Tok_call)}

\* C14: in the tokens rendered for a single message the reserved tokens are,
\* in this order, <|start|>, the role special, <|channel|> if a channel is
\* set, <|constrain|> if a content type is set, <|message|> and, as the last
\* token, the end marker; the texts between them are the channel, then
\* " to=" and the recipient, then the content type, and the body after
\* <|message|>.
C14_ReservedTokenOrder ==
  (tokenized_by = "render_conversation" /\ Len(conversation) = 1)
  => /\ tokens # <<>>
     /\ tokens[Len(tokens)] \in EndMarkers
     /\ reserved_of(SubSeq(tokens, 1, Len(tokens) - 1))
          = reserved_before_end(conversation[1])
     /\ decode_bytes(SubSeq(tokens, 1, Len(tokens) - 1))
          = Returns(text_before_end(conversation[1]))

\* A message with a channel, a recipient and a content type has been
\* rendered.
C14_Witness ==
  /\ tokenized_by = "render_conversation"
  /\ Len(conversation) = 1
  /\ conversation[1].channel # <<>>
  /\ conversation[1].recipient # <<>>
  /\ conversation[1].content_type # <<>>
  /\ tokens # <<>>

\* C15: the last token of a rendered message is <|call|>, not <|end|>, for an
\* assistant message with a recipient (a tool call), <|end|> for system,
\* developer, user and tool messages, and <|end|> or <|return|> (never
\* <|call|>) for the other assistant messages.
C15_EndMarkerByKind ==
  (tokenized_by = "render_conversation" /\ Len(conversation) = 1)
  => /\ tokens # <<>>
     /\ IF conversation[1].author.role # "Assistant"
        THEN tokens[Len(tokens)] = RankOf(Tok_end)
        ELSE IF conversation[1].recipient # <<>>
        THEN tokens[Len(tokens)] = RankOf(Tok_call)
        ELSE tokens[Len(tokens)] # RankOf(Tok_call)

\* The messages of conv that are rendered when analysis is dropped: all but
\* the assistant messages on the analysis channel that a later assistant
\* message on the final channel follows.
without_dropped_analysis(conv) ==
  LET later_final(k) ==
        \E j \in (k + 1)..Len(conv) :
          /\ conv[j].author.role = "Assistant"
          /\ conv[j].channel = <<In_final>>
      kept == {k \in 1..Len(conv) :
                 ~(/\ conv[k].author.role = "Assistant"
                   /\ conv[k].channel = <<In_analysis>>
                   /\ later_final(k))}
      nth(S, n) == CHOOSE k \in S : Cardinality({j \in S : j < k}) = n - 1
  IN [n \in 1..Cardinality(kept) |-> conv[nth(kept, n)]]

\* C16: with auto_drop_analysis enabled (also by default, when no config is
\* given), the tokens rendered for the next turn are those of the messages
\* other than the assistant analysis messages that precede a later assistant
\* final message, followed by the start of the next turn.
C16_AnalysisDropped ==
  (/\ tokenized_by = "render_conversation_for_completion"
   /\ \/ completion_call[1].config = <<>>
      \/ completion_call[1].config # <<>>
         /\ completion_call[1].config[1].auto_drop_analysis)
  => tokens =
       render_conversation(without_dropped_analysis(conversation), <<>>).value
       \o <<RankOf(Tok_start),
            RankOf(role_to_special_token(completion_call[1].next_turn_role))>>

\* C17: for every conversation c and role r, the last two tokens of
\* render_conversation_for_completion(c, r) are <|start|> and the special
\* token of r, and the tokens before them are render_conversation(c), which
\* is the renderings of the messages concatenated in message order.
C17_CompletionAppendsTurn ==
  tokenized_by = "render_conversation_for_completion"
  => /\ Len(tokens) >= 2
     /\ tokens[Len(tokens) - 1] = RankOf(Tok_start)
     /\ tokens[Len(tokens)]
          = RankOf(role_to_special_token(completion_call[1].next_turn_role))
     /\ \E rendered \in {render_conversation(conversation, <<>>).value} :
          /\ SubSeq(tokens, 1, Len(tokens) - 2) = rendered
          /\ rendered = Concat([k \in 1..Len(conversation) |->
                                  render_message(conversation[k], <<>>).value])

\* A conversation of two messages has been rendered for a tool turn.
C17_Witness ==
  /\ tokenized_by = "render_conversation_for_completion"
  /\ Len(conversation) = 2
  /\ conversation[1] # conversation[2]
  /\ completion_call[1].next_turn_role = "Tool"
  /\ Len(tokens) > 2

\* C18: for the tokens of k consecutive blocks "<|start|>" role name
\* ["<|channel|>" channel] [" to=" recipient] ["<|constrain|>" content type]
\* "<|message|>" body "<|end|>", parse_messages_from_completion_tokens
\* returns k messages in block order, message i with the role, channel,
\* recipient, content type and body text of block i, whatever the body.
C18_BulkParseBlocks ==
  (tokenized_by = "encode_with_special_tokens" /\ parsed # <<>>)
  => parsed[1] = Returns(expected_messages(conversation))

\* C19: encoding a single-byte piece whose byte has no vocabulary entry fails
\* with a VocabularyGap error; it never returns a rank list that leaves the
\* byte out.
C19_VocabularyGapFails ==
  (/\ tokenizer_call.op = "byte_pair_encode"
   /\ Len(input_text) = 1
   /\ input_text \in ranks_gap)
  => tokenizer_call.threw = "VocabularyGap"

\* C20: encode with an empty allowed-special set recognises no special
\* literal: a literal in the text is encoded as ordinary byte ranks, and the
\* result holds no reserved rank.
C20_EmptyAllowedIsOrdinary ==
  (tokenizer_call.op = "encode" /\ allowed_ = {})
  => /\ encoded = encode_ordinary(input_text)
     /\ \A i \in 1..Len(encoded) :
          encoded[i] \notin DOMAIN special_tokens_decoder_

RECURSIVE encode_by_occurrences(_, _)
\* The ranks expected of text for the allowed literals: the text before the
\* leftmost occurrence of an allowed literal as ordinary ranks, the
\* literal's reserved rank, and the same for the text after the occurrence.
encode_by_occurrences(text, allowed) ==
  LET literals == allowed \cap DOMAIN special_tokens_encoder_
      occurrences == {p \in 1..Len(text) :
                        \E lit \in literals : literal_at(text, p, lit)}
      from(p, lit) ==
        encode_ordinary(SubSeq(text, 1, p - 1))
        \o <<special_tokens_encoder_[lit]>>
        \o encode_by_occurrences(SubSeq(text, p + Len(lit), Len(text)), allowed)
      at(p) == from(p, CHOOSE lit \in literals : literal_at(text, p, lit))
  IN IF occurrences = {} THEN encode_ordinary(text) ELSE at(Min(occurrences))

\* C21: encode with a non-empty allowed set emits a reserved rank exactly for
\* the left-to-right non-overlapping occurrences of the allowed literals;
\* a special literal that is not allowed is encoded as ordinary byte ranks,
\* like the rest of the text between the occurrences.
C21_AllowedLiteralsOnly ==
  (tokenizer_call.op = "encode" /\ allowed_ # {})
  => /\ encoded = encode_by_occurrences(input_text, allowed_)
     /\ \A i \in 1..Len(encoded) :
          encoded[i] \in DOMAIN special_tokens_decoder_
            => special_tokens_decoder_[encoded[i]] \in allowed_

\* A text with <|start|> and <|end|> has been encoded with only <|end|>
\* allowed.
C21_Witness ==
  /\ tokenizer_call.op = "encode"
  /\ allowed_ = {Tok_end}
  /\ \E p \in 1..Len(input_text) : literal_at(input_text, p, Tok_start)
  /\ \E i \in 1..Len(encoded) : encoded[i] = RankOf(Tok_end)

\* The bytes a rank stands for: the vocabulary piece or special literal that
\* the encoders map to it.
byte_image(rank) ==
  CHOOSE bytes \in DOMAIN encoder_ \cup DOMAIN special_tokens_encoder_ :
    \/ bytes \in DOMAIN encoder_ /\ encoder_[bytes] = rank
    \/ bytes \in DOMAIN special_tokens_encoder_
       /\ special_tokens_encoder_[bytes] = rank

\* The ranks that some vocabulary piece or special literal is mapped to.
KnownRanks ==
  {encoder_[bytes] : bytes \in DOMAIN encoder_}
  \cup {special_tokens_encoder_[lit] : lit \in DOMAIN special_tokens_encoder_}

\* C22: decode_bytes, and decode_utf8, fail with DecodeKeyError whenever
\* some rank of the input is in neither decoder, and return no partial
\* result then; when every rank is in a decoder, decode_bytes returns the
\* byte images of the ranks in order.
C22_DecodeKeyError ==
  tokenizer_call.op \in {"decode_bytes", "decode_utf8"}
  => IF \E i \in 1..Len(encoded) : encoded[i] \notin KnownRanks
     THEN decoded = <<[threw |-> "DecodeKeyError", value |-> <<>>]>>
     ELSE tokenizer_call.op = "decode_bytes"
          => decoded = <<Returns(Concat([i \in 1..Len(encoded) |->
                                          byte_image(encoded[i])]))>>

\* A list with a decodable rank before an unknown one has been given to
\* decode_utf8.
C22_Witness ==
  /\ tokenizer_call.op = "decode_utf8"
  /\ Len(encoded) = 2
  /\ encoded[1] = 195
  /\ encoded[2] = 9999
  /\ decoded # <<>>

\* C23: parsing a block whose role literal is none of user, assistant,
\* system, developer and tool fails with an UnknownRole error, in the bulk
\* parser and in the streaming parser; no message is produced for it.
C23_UnknownRoleFails ==
  (/\ tokenized_by = "encode_with_special_tokens"
   /\ \E name \in {In_x, In_M}, body \in {In_Hi, In_x} :
        input_text = role_block(name, body))
  => /\ parsed # <<>> => parsed[1] = Throws("UnknownRole")
     /\ messages_ = <<>>
     /\ Len(tokens_) = Len(tokens) => last_call.threw = "UnknownRole"

C25_JsonRoundTrip ==
  restored # <<>>
  => /\ restored[1].threw = "none"
     /\ restored[1].value = conversation
     /\ render_conversation(restored[1].value, <<>>)
          = render_conversation(conversation, <<>>)

\* The reference merge procedure on the surviving parts: merge the leftmost
\* adjacent pair of smallest rank until no adjacent pair is in ranks, then
\* give the ranks of the parts.
RECURSIVE reference_merge(_, _)
reference_merge(parts, ranks) ==
  LET rank_at(i) == ranks[parts[i] \o parts[i + 1]]
      merge_at(i) ==
        [k \in 1..(Len(parts) - 1) |->
           IF k < i THEN parts[k]
           ELSE IF k = i THEN parts[k] \o parts[k + 1]
           ELSE parts[k + 1]]
      merge_best(pairs) ==
        merge_at(CHOOSE i \in pairs :
                   \A j \in pairs :
                     rank_at(i) < rank_at(j) \/ (rank_at(i) = rank_at(j) /\ i <= j))
      step(pairs) ==
        IF pairs = {}
        THEN [k \in 1..Len(parts) |-> ranks[parts[k]]]
        ELSE reference_merge(merge_best(pairs), ranks)
  IN step({i \in 1..(Len(parts) - 1) : parts[i] \o parts[i + 1] \in DOMAIN ranks})

\* C26: for every piece, byte_pair_encode returns the result of the
\* reference merge procedure: starting from single bytes, the adjacent pair
\* of smallest rank (leftmost on ties) is merged until no adjacent pair of
\* surviving parts is in the vocabulary, and the ranks of the surviving
\* parts are returned.
C26_ReferenceMerge ==
  (tokenizer_call.op = "byte_pair_encode" /\ ranks_gap = {})
  => encoded = reference_merge([i \in 1..Len(input_text) |-> <<input_text[i]>>],
                               encoder_)

\* C27: for a conversation whose messages each have one TextContent of
\* ASCII text and no author name, channel, recipient or content type, a
\* fresh StreamableParser fed render_conversation(c) token by token ends in
\* state ExpectStart with messages() equal to the messages of c, in order.
C27_RenderThenStream ==
  (tokenized_by = "render_conversation" /\ Len(tokens_) = Len(tokens))
  => /\ last_call.threw = "none"
     /\ state_ = "ExpectStart"
     /\ messages_ = conversation

\* A tool message and a user message whose text spells <|end|> have been
\* rendered and every rendered token has been processed.
C27_Witness ==
  /\ conversation = <<Message(Author("Tool"), <<TextContent(In_Hi)>>),
                      Message(Author("User"), <<TextContent(Tok_end)>>)>>
  /\ tokenized_by = "render_conversation"
  /\ tokens # <<>>
  /\ Len(tokens_) = Len(tokens)

\* C28: in every state reachable by process and process_eos calls, if
\* state() is ExpectStart then current_content() is empty and current_role,
\* current_channel, current_recipient and current_content_type are unset,
\* so text received for one message never appears in a later message.
C28_ExpectStartIsClean ==
  state_ = "ExpectStart"
  => /\ current_content_ = <<>>
     /\ current_role_ = <<>>
     /\ current_channel_ = <<>>
     /\ current_recipient_ = <<>>
     /\ current_content_type_ = <<>>

\* C29: messages() of a StreamableParser only grows: after any process or
\* process_eos call the list before the call is a prefix of the list after
\* it, completed messages are never changed, and one call adds at most one
\* message.
C29_MessagesOnlyGrow ==
  [][/\ Len(messages_) <= Len(messages_')
     /\ Len(messages_') <= Len(messages_) + 1
     /\ SubSeq(messages_', 1, Len(messages_)) = messages_]_vars

\* A second message has been completed by process_eos after the first was
\* completed by <|end|>.
C29_Witness ==
  /\ Len(messages_) = 2
  /\ last_call.op = "process_eos"
  /\ tokens_[Len(tokens_)] = 72

\* Two token lists have the same reserved ranks at the same positions and
\* ordinary ranks everywhere else.
same_reserved(toks, other) ==
  /\ Len(toks) = Len(other)
  /\ \A k \in 1..Len(toks) :
       IF toks[k] \in DOMAIN special_tokens_decoder_
       THEN other[k] = toks[k]
       ELSE other[k] \notin DOMAIN special_tokens_decoder_

\* C30: the message structure found by parse_messages_from_completion_tokens
\* depends only on reserved ranks: token lists with the same reserved ranks
\* at the same positions, differing only in ordinary ranks, parse to the
\* same number of messages, so body text that spells <|end|> or <|start|>
\* in ordinary bytes never starts or ends a message.
C30_StructureFromReserved ==
  (tokenized_by = "completion" /\ parsed # <<>>)
  => \A other \in {l \in CompletionTokenLists : same_reserved(tokens, l)} :
       \E parsed_other \in {parse_messages_from_completion_tokens(other, <<>>)} :
         /\ parsed[1].threw = "none"
         /\ parsed_other.threw = "none"
         /\ Len(parsed_other.value) = Len(parsed[1].value)
====
